---- MODULE Spec2Model ----
(***************************************************************************)
(* QuickBase MCP server: the protocol front-end (src/index.ts), the        *)
(* access-policy guard (src/utils/toolGuards.ts), and the derived-schema   *)
(* relationship orchestrator of the QuickBase client                       *)
(* (src/quickbase/client.ts) running against a remote table service.       *)
(*                                                                         *)
(* Every tool invocation is an async handler: the guard and the argument   *)
(* parsing run synchronously when the request arrives, and every remote    *)
(* call the client awaits is one atomic step at the remote service, so     *)
(* invocations interleave between remote calls.                            *)
(***************************************************************************)
EXTENDS Integers, Sequences, FiniteSets, TLC

(***************************************************************************)
(* Bounds of the model.                                                    *)
(***************************************************************************)
MaxLookups == 2      \* longest lookupFields list of a request
MaxExtra == 1        \* longest additionalFields list of a request
MaxNewFields == 5    \* fields the remote service still accepts
MaxNewTables == 2    \* tables the remote service still accepts

\* The requests in flight: the handler is async, so two requests interleave.
Inv == {"r1", "r2"}

(***************************************************************************)
(* The remote service before the server starts.  tblA is a parent table with *)
(* records 1 and 2; tblB and tblC each carry a reference field (6) to tblA and a *)
(* text field (7); tblB holds records pointing at 1, 2, 999 and 999, tblC      *)
(* records pointing at 1 and 2.  A record is (id, value of its reference   *)
(* field).  tblD is a table no relationship touches, with a text field    *)
(* (8), two records, a webhook and a notification; the single-call tools   *)
(* work on it.  Identifiers of new fields and tables are assigned by the   *)
(* service.                                                                *)
(***************************************************************************)
InitialTables == {"tblA", "tblB", "tblC", "tblD"}
MissingTable == "tblX"
NewTableIds == <<"tblJ1", "tblJ2", "tblJ3", "tblJ4">>
FirstNewFieldId == 10
LastFieldId == FirstNewFieldId + MaxNewFields - 1

NoTable == ""
NoField == 0

Field(t, id, kind, label, target, srcField, refField) ==
    [table |-> t, id |-> id, fieldType |-> kind, label |-> label,
     lookupTableId |-> target, lookupFieldId |-> srcField,
     referenceFieldId |-> refField]

InitialFields ==
    { Field("tblA", 4, "text", "Name", NoTable, NoField, NoField),
      Field("tblA", 5, "text", "City", NoTable, NoField, NoField),
      Field("tblB", 6, "reference", "Company", "tblA", NoField, NoField),
      Field("tblB", 7, "text", "Title", NoTable, NoField, NoField),
      Field("tblC", 6, "reference", "Company", "tblA", NoField, NoField),
      Field("tblC", 7, "text", "Title", NoTable, NoField, NoField),
      Field("tblD", 8, "text", "Note", NoTable, NoField, NoField) }

\* A webhook or a notification of a table.
Hook(kind, t, id) == [kind |-> kind, table |-> t, id |-> id]

InitialHooks ==
    { Hook("webhook", "tblD", "webhook456"),
      Hook("notification", "tblD", "notif789") }

Record(id, v) == [id |-> id, value |-> v]

InitialRecords ==
    [t \in InitialTables |->
        CASE t = "tblA" -> {Record(1, 0), Record(2, 0)}
          [] t = "tblB" -> {Record(1, 1), Record(2, 2), Record(3, 999),
                          Record(4, 999)}
          [] OTHER -> {Record(1, 1), Record(2, 2)}]

VARIABLES
    env,              \* process.env: the two flags the constructor reads
    readOnly,         \* QuickBaseMCPServer.readOnly
    allowDestructive, \* QuickBaseMCPServer.allowDestructive
    tables,           \* remote: identifiers of the existing tables
    tableName,        \* remote: display name of each created table
    fields,           \* remote: the existing fields
    links,            \* remote: the relationship links
    records,          \* remote: the records of each table
    nextField,        \* remote: next field identifier to assign
    nextTable,        \* remote: index of the next table identifier
    hooks,            \* remote: the webhooks and notifications
    pc,               \* per invocation: the await it is suspended at
    tool,             \* per invocation: request.params.name
    args,             \* per invocation: request.params.arguments
    loc,              \* per invocation: the client method's locals
    result,           \* per invocation: the response or the error thrown
    calls             \* per invocation: the remote calls issued so far

remote == <<tables, tableName, fields, links, records, nextField, nextTable,
            hooks>>
config == <<env, readOnly, allowDestructive>>
vars == <<env, readOnly, allowDestructive, tables, tableName, fields, links,
          records, nextField, nextTable, hooks, pc, tool, args, loc, result,
          calls>>

(***************************************************************************)
(* src/utils/env.ts.  The text of an environment variable is a sequence of *)
(* characters; an unset variable has no text.                              *)
(***************************************************************************)
Unset == [set |-> FALSE, text |-> <<>>]
Text(chars) == [set |-> TRUE, text |-> chars]

ReadOnlyFlag == "QB_READONLY"
DestructiveFlag == "QB_ALLOW_DESTRUCTIVE"
EnvNames == {ReadOnlyFlag, DestructiveFlag}

TRUE_VALUES ==
    {<<"1">>, <<"t", "r", "u", "e">>, <<"y", "e", "s">>, <<"y">>,
     <<"o", "n">>}
FALSE_VALUES ==
    {<<"0">>, <<"f", "a", "l", "s", "e">>, <<"n", "o">>, <<"n">>,
     <<"o", "f", "f">>}

Uppers ==
    <<"A", "B", "C", "D", "E", "F", "G", "H", "I", "J", "K", "L", "M", "N",
      "O", "P", "Q", "R", "S", "T", "U", "V", "W", "X", "Y", "Z">>
Lowers ==
    <<"a", "b", "c", "d", "e", "f", "g", "h", "i", "j", "k", "l", "m", "n",
      "o", "p", "q", "r", "s", "t", "u", "v", "w", "x", "y", "z">>
WhiteSpace == {" ", "\t", "\n"}

\* String.prototype.toLowerCase.
toLowerCase(chars) ==
    [k \in 1..Len(chars) |->
        IF \E u \in 1..Len(Uppers) : Uppers[u] = chars[k]
        THEN Lowers[CHOOSE u \in 1..Len(Uppers) : Uppers[u] = chars[k]]
        ELSE chars[k]]

\* String.prototype.trim: the text between the first and the last character
\* that is not white space.
trim(chars) ==
    LET solid == { k \in 1..Len(chars) : chars[k] \notin WhiteSpace }
    IN  IF solid = {} THEN <<>>
        ELSE LET first == CHOOSE k \in solid : \A m \in solid : k <= m
                 last == CHOOSE k \in solid : \A m \in solid : m <= k
             IN  SubSeq(chars, first, last)

\* envFlag comparing the text as it is.
envFlagUntrimmed(name, defaultValue) ==
    LET raw == env[name]
    IN  IF ~raw.set THEN defaultValue
        ELSE LET normalized == toLowerCase(raw.text)
             IN  IF Len(normalized) = 0 THEN defaultValue
                 ELSE IF normalized \in TRUE_VALUES THEN TRUE
                 ELSE IF normalized \in FALSE_VALUES THEN FALSE
                 ELSE defaultValue

\* envFlag(name, defaultValue).
envFlag(name, defaultValue) ==
    LET raw == env[name]
    IN  IF ~raw.set THEN defaultValue
        ELSE LET normalized == toLowerCase(trim(raw.text))
             IN  IF Len(normalized) = 0 THEN defaultValue
                 ELSE IF normalized \in TRUE_VALUES THEN TRUE
                 ELSE IF normalized \in FALSE_VALUES THEN FALSE
                 ELSE defaultValue

\* The texts the flags are started with: unset or "true".
StartValues == {Unset, Text(<<"t", "r", "u", "e">>)}

\* Texts of every kind: unset, empty, white space only, each recognised word,
\* words in upper case and within white space, and unrecognised words.
RawValues ==
    {Unset, Text(<<>>), Text(<<" ">>), Text(<<"2">>),
     Text(<<"t">>), Text(<<"t", "r", "u", "e", "x">>),
     Text(<<"o", " ", "n">>), Text(<<"e", "n", "a", "b", "l", "e", "d">>),
     Text(<<"T", "R", "U", "E">>), Text(<<" ", "Y", "e", "s", "\n">>),
     Text(<<"\t", "O", "n">>), Text(<<"1", " ">>),
     Text(<<"F", "a", "l", "s", "e">>), Text(<<" ", "N", "O", " ">>),
     Text(<<"O", "F", "F", "\t">>), Text(<<" ", "0">>)}
    \cup { Text(w) : w \in TRUE_VALUES \cup FALSE_VALUES }

(***************************************************************************)
(* src/utils/toolGuards.ts                                                 *)
(***************************************************************************)
\* The JSON values a caller can give the confirm argument: true, false, the
\* string "true", or no confirm key at all.
JsonTrue == "true"
JsonFalse == "false"
Undefined == "undefined"
ConfirmValues == {JsonTrue, JsonFalse, "'true'", Undefined}

destructiveTools ==
    {"quickbase_delete_table", "quickbase_delete_field",
     "quickbase_delete_record"}

\* The allow-list with the two relationship diagnostics added.
readOnlyAllowedToolsWithDiagnostics ==
    {"quickbase_get_app_info", "quickbase_get_tables",
     "quickbase_test_connection", "quickbase_get_table_info",
     "quickbase_get_table_fields", "quickbase_query_records",
     "quickbase_get_record", "quickbase_search_records",
     "quickbase_get_relationships", "quickbase_get_reports",
     "quickbase_run_report", "quickbase_validate_relationship",
     "quickbase_get_relationship_details"}

readOnlyAllowedTools ==
    {"quickbase_get_app_info", "quickbase_get_tables",
     "quickbase_test_connection", "quickbase_get_table_info",
     "quickbase_get_table_fields", "quickbase_query_records",
     "quickbase_get_record", "quickbase_search_records",
     "quickbase_get_relationships", "quickbase_get_reports",
     "quickbase_run_report"}

confirmationRequiredTools ==
    {"quickbase_create_table", "quickbase_create_field",
     "quickbase_update_field", "quickbase_create_record",
     "quickbase_update_record", "quickbase_bulk_create_records",
     "quickbase_create_relationship"}

Allowed == "allowed"
ReadOnlyDenied == "Server is running in read-only mode"
DestructiveDenied == "Destructive tool is disabled"
ConfirmationDenied == "requires confirmation"

\* The read-only check skipped for a confirmed call.
assertToolAllowedUnlessConfirmed(name, a, ro, ad) ==
    LET confirmed == a.confirm = JsonTrue
    IN  IF ro /\ ~confirmed /\ name \notin readOnlyAllowedTools
        THEN ReadOnlyDenied
        ELSE IF name \in destructiveTools /\ ~ad THEN DestructiveDenied
        ELSE IF name \in confirmationRequiredTools /\ ~confirmed
             THEN ConfirmationDenied
        ELSE Allowed

\* assertToolAllowed: the message of the McpError it throws, or Allowed.
assertToolAllowed(name, a, ro, ad) ==
    LET confirmed == a.confirm = JsonTrue
    IN  IF ro /\ name \notin readOnlyAllowedTools THEN ReadOnlyDenied
        ELSE IF name \in destructiveTools /\ ~ad THEN DestructiveDenied
        ELSE IF name \in confirmationRequiredTools /\ ~confirmed
             THEN ConfirmationDenied
        ELSE Allowed

(***************************************************************************)
(* src/tools/index.ts: the argument schemas of the relationship tools.     *)
(* An optional list is a record (present, items); an omitted enum is "".   *)
(***************************************************************************)
AdvancedTool == "quickbase_create_advanced_relationship"
JunctionTool == "quickbase_create_junction_table"
ValidateTool == "quickbase_validate_relationship"
RelationshipTool == "quickbase_create_relationship"
DetailsTool == "quickbase_get_relationship_details"
LookupTool == "quickbase_create_lookup_field"

Omitted == [present |-> FALSE, items |-> <<>>]
Given(s) == [present |-> TRUE, items |-> s]
OmittedEnum == ""

\* CreateAdvancedRelationshipSchema: confirm is z.literal(true) and
\* relationshipType defaults to 'one-to-many'.
CreateAdvancedRelationshipSchema(a) ==
    IF a.confirm # JsonTrue THEN [ok |-> FALSE, data |-> a]
    ELSE [ok |-> TRUE,
          data |-> [a EXCEPT !.relationshipType =
                        IF @ = OmittedEnum THEN "one-to-many" ELSE @]]

\* CreateJunctionTableSchema: confirm is z.literal(true).
CreateJunctionTableSchema(a) == [ok |-> a.confirm = JsonTrue, data |-> a]

\* ValidateRelationshipSchema: no confirm field; unknown keys are stripped.
ValidateRelationshipSchema(a) ==
    [ok |-> TRUE,
     data |-> [parentTableId |-> a.parentTableId,
               childTableId |-> a.childTableId,
               foreignKeyFieldId |-> a.foreignKeyFieldId]]

\* CreateRelationshipSchema: confirm is z.literal(true).
CreateRelationshipSchema(a) == [ok |-> a.confirm = JsonTrue, data |-> a]

\* confirm checked for truthiness instead of z.literal(true).
CreateLookupFieldSchemaTruthy(a) ==
    [ok |-> a.confirm \in {JsonTrue, "'true'"}, data |-> a]

(***************************************************************************)
(* Field payloads: the values of a record's fields, as parsed from JSON.   *)
(* A value has a kind; a string has a length and a number a value (len);   *)
(* an array or object has entries in iteration order, each with the length *)
(* of its key (0 for an array item), followed by pad further entries whose *)
(* value is null and whose key is one character long.                      *)
(***************************************************************************)
Value(kind, len, entries, pad) ==
    [kind |-> kind, len |-> len, entries |-> entries, pad |-> pad]
Entry(keyLen, value) == [keyLen |-> keyLen, value |-> value]

Null == Value("null", 0, <<>>, 0)
Undef == Value("undefined", 0, <<>>, 0)
Str(n) == Value("string", n, <<>>, 0)
Num(v) == Value("number", v, <<>>, 0)
Bool == Value("boolean", 0, <<>>, 0)
BigInt == Value("bigint", 0, <<>>, 0)
Arr(items, pad) ==
    Value("array", 0, [k \in 1..Len(items) |-> Entry(0, items[k])], pad)
Obj(entries, pad) == Value("object", 0, entries, pad)

\* The limits of validateFieldPayload.
maxDepth == 4
maxKeysPerObject == 250
maxTotalKeys == 2000
maxStringLength == 10000
maxArrayLength == 1000
maxKeyLength == 64
maxRecords == 250


\* ctx.addIssue, n times.
addIssue(st, message, n) ==
    [st EXCEPT !.issues = @ \o [k \in 1..n |-> message]]

\* if (depth > maxDepth), tested at >= instead.
DepthExceededInclusive(depth) == depth >= maxDepth

\* if (depth > maxDepth).
DepthExceeded(depth) == depth > maxDepth

RECURSIVE visit(_, _, _)
RECURSIVE visitEntries(_, _, _, _, _)

\* for (const item of value) / for (const k of keys): the entries from the
\* k-th on, then the pad entries; a key that is too long ends the loop.
visitEntries(value, k, checkKeys, depth, st) ==
    IF k > Len(value.entries)
    THEN IF DepthExceeded(depth)
         THEN addIssue(st, "Payload nesting too deep", value.pad)
         ELSE st
    ELSE IF checkKeys /\ value.entries[k].keyLen > maxKeyLength
    THEN addIssue(st, "Object key too long", 1)
    ELSE visitEntries(value, k + 1, checkKeys, depth,
                      visit(value.entries[k].value, depth, st))

\* visit(value, depth): st carries totalKeys and the issues added so far.
visit(value, depth, st) ==
    LET size == Len(value.entries) + value.pad
        counted == [st EXCEPT !.totalKeys = @ + size]
    IN  IF DepthExceeded(depth) THEN addIssue(st, "Payload nesting too deep", 1)
        ELSE CASE value.kind \in {"null", "undefined"} -> st
               [] value.kind = "string" ->
                    IF value.len > maxStringLength
                    THEN addIssue(st, "String value too long", 1) ELSE st
               [] value.kind \in {"number", "boolean"} -> st
               [] value.kind = "array" ->
                    IF size > maxArrayLength
                    THEN addIssue(st, "Array too large", 1)
                    ELSE visitEntries(value, 1, FALSE, depth + 1, st)
               [] value.kind = "object" ->
                    IF size > maxKeysPerObject
                    THEN addIssue(st, "Object has too many keys", 1)
                    ELSE IF counted.totalKeys > maxTotalKeys
                    THEN addIssue(counted, "Payload has too many keys overall", 1)
                    ELSE visitEntries(value, 1, TRUE, depth + 1, counted)
               [] OTHER -> addIssue(st, "Unsupported value type in payload", 1)

\* validateFieldPayload(payload, ctx): the issues it adds to ctx.
validateFieldPayload(payload) ==
    visit(payload, 0, [totalKeys |-> 0, issues |-> <<>>]).issues

\* fields without the refinement.
FieldsSchemaUnrefined(v) == v.kind = "object"

\* fields: z.record(z.any()).superRefine(validateFieldPayload): the value is
\* an object and the refinement adds no issue.
FieldsSchema(v) == v.kind = "object" /\ validateFieldPayload(v) = <<>>

RecordTools ==
    {"quickbase_create_record", "quickbase_update_record",
     "quickbase_bulk_create_records"}

\* CreateRecordSchema.
CreateRecordSchema(a) ==
    [ok |-> a.confirm = JsonTrue /\ FieldsSchema(a.fields), data |-> a]

\* UpdateRecordSchema.
UpdateRecordSchema(a) ==
    [ok |-> a.confirm = JsonTrue /\ FieldsSchema(a.fields), data |-> a]

\* BulkCreateSchema: records is an array of at most 250 objects, the fields
\* of each refined on its own. The records are a.records followed by
\* a.more records without field values.
BulkCreateSchema(a) ==
    [ok |-> /\ a.confirm = JsonTrue
            /\ Len(a.records) + a.more <= maxRecords
            /\ \A k \in 1..Len(a.records) : FieldsSchema(a.records[k]),
     data |-> a]

RecordSchema(name, a) ==
    CASE name = "quickbase_create_record" -> CreateRecordSchema(a)
      [] name = "quickbase_update_record" -> UpdateRecordSchema(a)
      [] name = "quickbase_bulk_create_records" -> BulkCreateSchema(a)

\* The tools that make one client call, and the client method of each.
SingleCallTools ==
    {"quickbase_get_record", "quickbase_create_record",
     "quickbase_update_record", "quickbase_bulk_create_records",
     "quickbase_delete_table", "quickbase_delete_field",
     "quickbase_delete_record", "quickbase_create_webhook",
     "quickbase_list_webhooks", "quickbase_delete_webhook",
     "quickbase_test_webhook", "quickbase_create_notification",
     "quickbase_list_notifications", "quickbase_delete_notification"}

UnknownTool == "quickbase_no_such_tool"

\* UpdateRecordSchema, CreateWebhookSchema and CreateNotificationSchema
\* declare confirm: z.literal(true); the schemas of the other single-call
\* tools have no confirm key.
ConfirmLiteralTools ==
    {"quickbase_update_record", "quickbase_create_webhook",
     "quickbase_create_notification"}

SingleCallSchema(name, a) ==
    IF name \in RecordTools THEN RecordSchema(name, a)
    ELSE [ok |-> (name \in ConfirmLiteralTools => a.confirm = JsonTrue),
          data |-> a]

\* CreateLookupFieldSchema: confirm is z.literal(true).
CreateLookupFieldSchema(a) == [ok |-> a.confirm = JsonTrue, data |-> a]

\* includeFields defaulting to false.
GetRelationshipDetailsSchemaDefaultFalse(a) ==
    [ok |-> a.includeFields \in {JsonTrue, JsonFalse, Undefined},
     data |-> [tableId |-> a.tableId,
               includeFields |-> a.includeFields = JsonTrue]]

\* GetRelationshipDetailsSchema: includeFields is z.boolean().default(true).
GetRelationshipDetailsSchema(a) ==
    [ok |-> a.includeFields \in {JsonTrue, JsonFalse, Undefined},
     data |-> [tableId |-> a.tableId,
               includeFields |-> IF a.includeFields = Undefined THEN TRUE
                                 ELSE a.includeFields = JsonTrue]]

InvalidArguments == "Invalid arguments for"

(***************************************************************************)
(* src/index.ts: what the CallToolRequestSchema handler returns or throws. *)
(***************************************************************************)
NoValue == [none |-> TRUE]
Pending == [ok |-> FALSE, message |-> <<>>, value |-> NoValue]
Success(v) == [ok |-> TRUE, message |-> <<>>, value |-> v]
\* The catch block taking the 'Unknown error' branch for every error.
FailureUnknownError(name, cause) ==
    [ok |-> FALSE, message |-> <<"Error executing", name, "Unknown error">>,
     value |-> NoValue]

\* catch (error): McpError(InternalError, `Error executing ${name}: ...`)
Failure(name, cause) ==
    [ok |-> FALSE, message |-> <<"Error executing", name>> \o cause,
     value |-> NoValue]

\* The handler forgetting to pass lookupFields on.
AdvancedRelationshipCallNoLookups(p) ==
    [parentTableId |-> p.parentTableId,
     childTableId |-> p.childTableId,
     referenceFieldLabel |-> p.referenceFieldLabel,
     lookupFields |-> [present |-> FALSE, items |-> <<>>],
     relationshipType |-> p.relationshipType]

\* The handler passing lookupFields on for one-to-many relationships only.
AdvancedRelationshipCallByKind(p) ==
    [parentTableId |-> p.parentTableId,
     childTableId |-> p.childTableId,
     referenceFieldLabel |-> p.referenceFieldLabel,
     lookupFields |-> IF p.relationshipType = "many-to-many"
                      THEN [present |-> FALSE, items |-> <<>>]
                      ELSE p.lookupFields,
     relationshipType |-> p.relationshipType]

\* The handler passing the two table identifiers in the wrong order.
AdvancedRelationshipCallSwapped(p) ==
    [parentTableId |-> p.childTableId,
     childTableId |-> p.parentTableId,
     referenceFieldLabel |-> p.referenceFieldLabel,
     lookupFields |-> p.lookupFields,
     relationshipType |-> p.relationshipType]

\* The handler passing childTableId for both tables.
AdvancedRelationshipCallSameTable(p) ==
    [parentTableId |-> p.childTableId,
     childTableId |-> p.childTableId,
     referenceFieldLabel |-> p.referenceFieldLabel,
     lookupFields |-> p.lookupFields,
     relationshipType |-> p.relationshipType]

\* case 'quickbase_create_advanced_relationship': the arguments handed to
\* qbClient.createAdvancedRelationship.
AdvancedRelationshipCall(p) ==
    [parentTableId |-> p.parentTableId,
     childTableId |-> p.childTableId,
     referenceFieldLabel |-> p.referenceFieldLabel,
     lookupFields |-> p.lookupFields,
     relationshipType |-> p.relationshipType]

\* The handler passing the two table identifiers in the wrong order.
JunctionTableCallSwapped(p) ==
    [junctionTableName |-> p.junctionTableName,
     table1Id |-> p.table2Id,
     table2Id |-> p.table1Id,
     table1FieldLabel |-> p.table1FieldLabel,
     table2FieldLabel |-> p.table2FieldLabel,
     additionalFields |-> p.additionalFields]

\* The handler passing a field label as the table's name.
JunctionTableCallRenamed(p) ==
    [junctionTableName |-> p.table1FieldLabel,
     table1Id |-> p.table1Id,
     table2Id |-> p.table2Id,
     table1FieldLabel |-> p.table1FieldLabel,
     table2FieldLabel |-> p.table2FieldLabel,
     additionalFields |-> p.additionalFields]

\* The handler passing the two labels in the wrong order.
JunctionTableCallLabelsSwapped(p) ==
    [junctionTableName |-> p.junctionTableName,
     table1Id |-> p.table1Id,
     table2Id |-> p.table2Id,
     table1FieldLabel |-> p.table2FieldLabel,
     table2FieldLabel |-> p.table1FieldLabel,
     additionalFields |-> p.additionalFields]

\* case 'quickbase_create_junction_table': the arguments handed to
\* qbClient.createJunctionTable.
JunctionTableCall(p) ==
    [junctionTableName |-> p.junctionTableName,
     table1Id |-> p.table1Id,
     table2Id |-> p.table2Id,
     table1FieldLabel |-> p.table1FieldLabel,
     table2FieldLabel |-> p.table2FieldLabel,
     additionalFields |-> p.additionalFields]

\* The handler passing the two table identifiers in the wrong order.
ValidateRelationshipCallSwapped(p) ==
    [parentTableId |-> p.childTableId,
     childTableId |-> p.parentTableId,
     foreignKeyFieldId |-> p.foreignKeyFieldId]

\* The handler passing childTableId for both tables.
ValidateRelationshipCallSameTable(p) ==
    [parentTableId |-> p.childTableId,
     childTableId |-> p.childTableId,
     foreignKeyFieldId |-> p.foreignKeyFieldId]

\* The handler passing parentTableId for both tables.
ValidateRelationshipCallParentTwice(p) ==
    [parentTableId |-> p.parentTableId,
     childTableId |-> p.parentTableId,
     foreignKeyFieldId |-> p.foreignKeyFieldId]

\* The handler passing the identifier of one fixed field.
ValidateRelationshipCallFixedField(p) ==
    [parentTableId |-> p.parentTableId,
     childTableId |-> p.childTableId,
     foreignKeyFieldId |-> 6]

\* The handler passing the identifier before the one it was given.
ValidateRelationshipCallPreviousField(p) ==
    [parentTableId |-> p.parentTableId,
     childTableId |-> p.childTableId,
     foreignKeyFieldId |-> p.foreignKeyFieldId - 1]

\* The handler passing another field identifier.
ValidateRelationshipCallOtherField(p) ==
    [parentTableId |-> p.parentTableId,
     childTableId |-> p.childTableId,
     foreignKeyFieldId |-> p.foreignKeyFieldId + 1]

\* case 'quickbase_validate_relationship': the arguments handed to
\* qbClient.validateRelationship.
ValidateRelationshipCall(p) ==
    [parentTableId |-> p.parentTableId,
     childTableId |-> p.childTableId,
     foreignKeyFieldId |-> p.foreignKeyFieldId]

\* case 'quickbase_create_relationship': the arguments handed to
\* qbClient.createRelationship.
CreateRelationshipCall(p) ==
    [parentTableId |-> p.parentTableId,
     childTableId |-> p.childTableId,
     foreignKeyFieldId |-> p.foreignKeyFieldId]

\* The handler passing the two field identifiers in the wrong order.
CreateLookupFieldCallSwapped(p) ==
    [childTableId |-> p.childTableId,
     parentTableId |-> p.parentTableId,
     referenceFieldId |-> p.parentFieldId,
     parentFieldId |-> p.referenceFieldId,
     label |-> p.lookupFieldLabel]

\* case 'quickbase_create_lookup_field': the arguments handed to
\* qbClient.createLookupField.
CreateLookupFieldCall(p) ==
    [childTableId |-> p.childTableId,
     parentTableId |-> p.parentTableId,
     referenceFieldId |-> p.referenceFieldId,
     parentFieldId |-> p.parentFieldId,
     label |-> p.lookupFieldLabel]

\* case 'quickbase_get_relationship_details': the arguments handed to
\* qbClient.getRelationshipDetails.
GetRelationshipDetailsCall(p) ==
    [tableId |-> p.tableId, includeFields |-> p.includeFields]

\* The client method each single-call case awaits.
ClientMethod(name) ==
    CASE name = "quickbase_get_record" -> "getRecord"
      [] name = "quickbase_create_record" -> "createRecord"
      [] name = "quickbase_update_record" -> "updateRecord"
      [] name = "quickbase_bulk_create_records" -> "createRecords"
      [] name = "quickbase_delete_table" -> "deleteTable"
      [] name = "quickbase_delete_field" -> "deleteField"
      [] name = "quickbase_delete_record" -> "deleteRecord"
      [] name = "quickbase_create_webhook" -> "createWebhook"
      [] name = "quickbase_list_webhooks" -> "listWebhooks"
      [] name = "quickbase_delete_webhook" -> "deleteWebhook"
      [] name = "quickbase_test_webhook" -> "testWebhook"
      [] name = "quickbase_create_notification" -> "createNotification"
      [] name = "quickbase_list_notifications" -> "listNotifications"
      [] name = "quickbase_delete_notification" -> "deleteNotification"

UnknownToolMessage == "Unknown tool:"

\* The validate case calling qbClient.createRelationship, which takes the
\* same three arguments.
SwitchValidateCreates(name) ==
    CASE name = AdvancedTool -> "adv_reference"
      [] name = JunctionTool -> "jun_table"
      [] name = ValidateTool -> "rel_link"
      [] name = RelationshipTool -> "rel_link"
      [] name = DetailsTool -> "det_table"
      [] name = LookupTool -> "lkp_create"
      [] name \in SingleCallTools -> "client_call"
      [] OTHER -> "default"

\* The details case awaiting something that is never settled.
SwitchDetailsNeverSettles(name) ==
    CASE name = AdvancedTool -> "adv_reference"
      [] name = JunctionTool -> "jun_table"
      [] name = ValidateTool -> "val_parent"
      [] name = RelationshipTool -> "rel_link"
      [] name = DetailsTool -> "det_unsettled"
      [] name = LookupTool -> "lkp_create"
      [] name \in SingleCallTools -> "client_call"
      [] OTHER -> "default"

\* switch (name): the client method each case awaits, as the await the
\* invocation is first suspended at.
Switch(name) ==
    CASE name = AdvancedTool -> "adv_reference"
      [] name = JunctionTool -> "jun_table"
      [] name = ValidateTool -> "val_parent"
      [] name = RelationshipTool -> "rel_link"
      [] name = DetailsTool -> "det_table"
      [] name = LookupTool -> "lkp_create"
      [] name \in SingleCallTools -> "client_call"
      [] OTHER -> "default"

(***************************************************************************)
(* The requests a caller can send.                                         *)
(***************************************************************************)
LookupSpecBase ==
    << [parentFieldId |-> 4, childFieldLabel |-> "Company Name"],
       [parentFieldId |-> 5, childFieldLabel |-> "Company City"],
       [parentFieldId |-> 4, childFieldLabel |-> "Company Alias"],
       [parentFieldId |-> 5, childFieldLabel |-> "Company Town"] >>

ExtraFieldBase ==
    << [label |-> "Quantity", fieldType |-> "numeric"],
       [label |-> "Start Date", fieldType |-> "date"],
       [label |-> "Notes", fieldType |-> "text"] >>

Prefixes(s, n) == { SubSeq(s, 1, k) : k \in 0..n }
OptionalLists(s, n) == {Omitted} \cup { Given(p) : p \in Prefixes(s, n) }

RelationshipTypes == {OmittedEnum, "one-to-many", "many-to-many"}

AdvancedArgs ==
    { [confirm |-> c, parentTableId |-> "tblA", childTableId |-> "tblB",
       referenceFieldLabel |-> "Company Reference",
       lookupFields |-> l, relationshipType |-> k] :
        c \in ConfirmValues, l \in OptionalLists(LookupSpecBase, MaxLookups),
        k \in RelationshipTypes }

JunctionArgs ==
    { [confirm |-> c, junctionTableName |-> "Orders_Products",
       table1Id |-> "tblA", table2Id |-> "tblB",
       table1FieldLabel |-> "Order", table2FieldLabel |-> "Product",
       additionalFields |-> x] :
        c \in ConfirmValues, x \in OptionalLists(ExtraFieldBase, MaxExtra) }

ValidateArgs ==
    { [confirm |-> Undefined, parentTableId |-> p, childTableId |-> c,
       foreignKeyFieldId |-> f] :
        p \in {"tblA", MissingTable}, c \in {"tblB", "tblC", MissingTable},
        f \in {6, 7, 9} }

RelationshipArgs ==
    { [confirm |-> c, parentTableId |-> "tblA", childTableId |-> "tblB",
       foreignKeyFieldId |-> 6] : c \in ConfirmValues }

DetailsArgs ==
    { [confirm |-> Undefined, tableId |-> t, includeFields |-> f] :
        t \in {"tblA", "tblB", MissingTable},
        f \in {Undefined, JsonTrue, JsonFalse} }

LookupArgs ==
    { [confirm |-> c, childTableId |-> t, parentTableId |-> "tblA",
       referenceFieldId |-> r, parentFieldId |-> f,
       lookupFieldLabel |-> "Company Name"] :
        c \in ConfirmValues, t \in {"tblB", MissingTable}, r \in {6, 9},
        f \in {4, 5} }

\* The arguments of a single-call tool; records is followed by more
\* records without field values.
SingleArgs(c, t, payload, recs, more) ==
    [confirm |-> c, tableId |-> t, recordId |-> 1, fieldId |-> 8,
     fields |-> payload, records |-> recs, more |-> more,
     webhookId |-> "webhook456", notificationId |-> "notif789"]

SmallPayload == Obj(<<Entry(1, Num(5))>>, 0)

SingleCallArgs ==
    { SingleArgs(c, "tblD", SmallPayload, <<SmallPayload>>, 0) :
        c \in {JsonTrue, Undefined} }

\* A value under n nested objects, or n nested arrays.
RECURSIVE InObjects(_, _)
InObjects(v, n) ==
    IF n = 0 THEN v ELSE Obj(<<Entry(1, InObjects(v, n - 1))>>, 0)

RECURSIVE InArrays(_, _)
InArrays(v, n) == IF n = 0 THEN v ELSE Arr(<<InArrays(v, n - 1)>>, 0)

\* Values at the limits of length and size, and of each type.
Leaves ==
    {Null, Undef, Bool, Num(1), BigInt, Str(1), Str(maxStringLength),
     Str(maxStringLength + 1)}
Containers ==
    {Arr(<<>>, 0), Arr(<<>>, 1), Arr(<<>>, maxArrayLength), Arr(<<>>, maxArrayLength + 1),
     Arr(<<Str(1)>>, maxArrayLength - 1), Arr(<<Str(1)>>, maxArrayLength),
     Obj(<<>>, 0), Obj(<<>>, 1), Obj(<<>>, maxKeysPerObject),
     Obj(<<>>, maxKeysPerObject + 1),
     Obj(<<Entry(maxKeyLength, Null)>>, 0), Obj(<<Entry(maxKeyLength + 1, Null)>>, 0),
     Obj(<<Entry(maxKeyLength + 1, Null), Entry(1, BigInt)>>, 0),
     Obj(<<Entry(1, BigInt), Entry(maxKeyLength + 1, Null)>>, maxKeysPerObject - 2)}

\* Eight objects under one root: seven full ones and one with n keys.
ManyKeys(n) ==
    Obj([k \in 1..8 |->
            Entry(1, Obj(<<>>, IF k < 8 THEN maxKeysPerObject ELSE n))], 0)

\* The field values of the record tools: a value of each kind at the root,
\* at depth 1, and at the deepest levels under objects and under arrays; and
\* objects whose keys add up to the overall limit and to one more.
Payloads ==
    Containers \cup {Null, Str(1)}
    \cup { InObjects(v, 1) : v \in Leaves \cup Containers }
    \cup { InObjects(v, n) : v \in {Null, Str(1), Arr(<<>>, 0), Arr(<<>>, 1),
                                     Obj(<<>>, 0), Obj(<<>>, 1), BigInt},
                             n \in {maxDepth, maxDepth + 1} }
    \cup { InObjects(InArrays(v, n - 1), 1) :
             v \in {Null, Arr(<<>>, 0), Arr(<<>>, 1), Obj(<<>>, 1)},
             n \in {maxDepth, maxDepth + 1} }
    \cup { ManyKeys(n) : n \in {maxTotalKeys - 7 * maxKeysPerObject - 8,
                                 maxTotalKeys - 7 * maxKeysPerObject - 7} }

\* The records of a bulk creation, and the number of further records
\* without field values.
BulkInputs ==
    { <<recs, more>> :
        recs \in {<<>>, <<SmallPayload>>, <<SmallPayload, InObjects(Null, maxDepth + 1)>>,
                  <<InObjects(BigInt, 1), SmallPayload>>,
                  <<ManyKeys(0), ManyKeys(0)>>, <<Arr(<<>>, 0)>>},
        more \in {0, maxRecords - 1, maxRecords} }

RecordArgs(name) ==
    IF name = "quickbase_bulk_create_records"
    THEN { SingleArgs(c, t, SmallPayload, b[1], b[2]) :
             c \in {JsonTrue, Undefined}, t \in {"tblD", MissingTable},
             b \in BulkInputs }
    ELSE { SingleArgs(c, t, v, <<>>, 0) :
             c \in {JsonTrue, Undefined}, t \in {"tblD", MissingTable},
             v \in Payloads }

NoArgs == [confirm |-> Undefined]

NoLoc ==
    [parentTableId |-> NoTable, childTableId |-> NoTable,
     label |-> "", specs |-> <<>>, relationshipType |-> "",
     referenceFieldId |-> NoField, lookupFieldIds |-> <<>>,
     name |-> "", label2 |-> "",
     junctionTableId |-> NoTable, table1ReferenceFieldId |-> NoField,
     table2ReferenceFieldId |-> NoField, extraFieldIds |-> <<>>,
     foreignKeyFieldId |-> NoField, issues |-> <<>>, childRecords |-> {},
     includeFields |-> FALSE, pending |-> {}, relationships |-> {},
     parentFieldId |-> NoField, request |-> NoArgs]

(***************************************************************************)
(* The remote calls of the client, as logged per invocation.               *)
(***************************************************************************)
Call(op, t, body, ok, id) ==
    [op |-> op, table |-> t, body |-> body, ok |-> ok, id |-> id]

NoBody == Field(NoTable, NoField, "", "", NoTable, NoField, NoField)
Rejected == <<"upstream-rejected">>

\* The service refuses a creation on a missing table and once it is full;
\* otherwise it may accept or refuse it.
CreateFieldOutcomes(t) ==
    IF t \in tables /\ nextField <= LastFieldId THEN BOOLEAN ELSE {FALSE}

CreateTableOutcomes ==
    IF nextTable <= MaxNewTables THEN BOOLEAN ELSE {FALSE}

CreateRelationshipOutcomes(p, c) ==
    IF p \in tables /\ c \in tables THEN BOOLEAN ELSE {FALSE}

Init ==
    /\ env \in [EnvNames -> StartValues]
    /\ allowDestructive = envFlag(DestructiveFlag, FALSE)
    /\ readOnly = envFlag(ReadOnlyFlag, FALSE)
    /\ tables = InitialTables
    /\ tableName = [t \in InitialTables |-> t]
    /\ fields = InitialFields
    /\ links = {}
    /\ records = InitialRecords
    /\ nextField = FirstNewFieldId
    /\ nextTable = 1
    /\ hooks = InitialHooks
    /\ pc = [i \in Inv |-> "idle"]
    /\ tool = [i \in Inv |-> ""]
    /\ args = [i \in Inv |-> NoArgs]
    /\ loc = [i \in Inv |-> NoLoc]
    /\ result = [i \in Inv |-> Pending]
    /\ calls = [i \in Inv |-> <<>>]

\* The fields an invocation has created so far.
CreatedFields(i) ==
    { f \in fields : \E k \in 1..Len(calls[i]) :
        /\ calls[i][k].op = "createField" /\ calls[i][k].ok
        /\ calls[i][k].id = f.id }

\* A rollback in the catch block, which the handler does not have.
ThrowAndRollBack(i, name, cause) ==
    /\ pc' = [pc EXCEPT ![i] = "failed"]
    /\ result' = [result EXCEPT ![i] = Failure(name, cause)]
    /\ fields' = fields \ CreatedFields(i)

\* A retry of the failed step in place of the throw.
ThrowAndRetry(i, name, cause) ==
    /\ UNCHANGED <<pc, result>>
    /\ fields' = fields

\* The handler throws: the catch block logs the error and wraps its message
\* in a new McpError; it issues no remote call.
Throw(i, name, cause) ==
    /\ pc' = [pc EXCEPT ![i] = "failed"]
    /\ result' = [result EXCEPT ![i] = Failure(name, cause)]
    /\ fields' = fields

\* The handler returns the client's result.
Return(i, v) ==
    /\ pc' = [pc EXCEPT ![i] = "done"]
    /\ result' = [result EXCEPT ![i] = Success(v)]

Issue(i, c) == calls' = [calls EXCEPT ![i] = Append(@, c)]

(***************************************************************************)
(* quickbase_create_advanced_relationship                                  *)
(***************************************************************************)
CallAdvanced(i) ==
    /\ pc[i] = "idle"
    /\ \E a \in AdvancedArgs :
        LET name == AdvancedTool
            guarded == assertToolAllowed(name, a, readOnly, allowDestructive)
            parsed == CreateAdvancedRelationshipSchema(a)
            c == AdvancedRelationshipCall(parsed.data)
        IN  /\ tool' = [tool EXCEPT ![i] = name]
            /\ args' = [args EXCEPT ![i] = a]
            /\ IF guarded # Allowed
               THEN Throw(i, name, <<guarded>>) /\ UNCHANGED loc
               ELSE IF ~parsed.ok
               THEN Throw(i, name, <<InvalidArguments, name>>) /\ UNCHANGED loc
               ELSE /\ pc' = [pc EXCEPT ![i] = Switch(name)]
                    /\ loc' = [loc EXCEPT ![i] =
                         [NoLoc EXCEPT
                            !.parentTableId = c.parentTableId,
                            !.childTableId = c.childTableId,
                            !.label = c.referenceFieldLabel,
                            !.specs = c.lookupFields.items,
                            !.relationshipType = c.relationshipType]]
                    /\ UNCHANGED result
    /\ UNCHANGED <<config, remote, calls>>

\* The result of createAdvancedRelationship.
AdvancedResult(l, ids) ==
    [referenceFieldId |-> l.referenceFieldId, lookupFieldIds |-> ids]

\* Step 1: createField(childTableId, reference field pointing at the parent).
AdvancedReference(i) ==
    /\ pc[i] = "adv_reference"
    /\ LET l == loc[i]
           body == Field(l.childTableId, NoField, "reference", l.label,
                         l.parentTableId, NoField, NoField)
       IN \E ok \in CreateFieldOutcomes(l.childTableId) :
            IF ok
            THEN /\ fields' = fields \cup {[body EXCEPT !.id = nextField]}
                 /\ nextField' = nextField + 1
                 /\ loc' = [loc EXCEPT ![i].referenceFieldId = nextField]
                 /\ pc' = [pc EXCEPT ![i] = "adv_link"]
                 /\ Issue(i, Call("createField", l.childTableId, body, TRUE, nextField))
                 /\ UNCHANGED result
            ELSE /\ Throw(i, tool[i], Rejected)
                 /\ Issue(i, Call("createField", l.childTableId, body, FALSE, NoField))
                 /\ UNCHANGED <<nextField, loc>>
    /\ UNCHANGED <<config, hooks, tables, tableName, links, records, nextTable, tool, args>>

\* Step 2: createRelationship(parentTableId, childTableId, referenceFieldId).
AdvancedLink(i) ==
    /\ pc[i] = "adv_link"
    /\ LET l == loc[i]
           body == Field(l.childTableId, l.referenceFieldId, "", "",
                         l.parentTableId, NoField, NoField)
       IN \E ok \in CreateRelationshipOutcomes(l.parentTableId, l.childTableId) :
            IF ok
            THEN /\ links' = links \cup
                       {<<l.parentTableId, l.childTableId, l.referenceFieldId>>}
                 /\ UNCHANGED fields
                 /\ Issue(i, Call("createRelationship", l.childTableId, body, TRUE, NoField))
                 /\ IF Len(l.specs) > 0
                    THEN pc' = [pc EXCEPT ![i] = "adv_lookup"] /\ UNCHANGED result
                    ELSE Return(i, AdvancedResult(l, <<>>))
            ELSE /\ Throw(i, tool[i], Rejected)
                 /\ Issue(i, Call("createRelationship", l.childTableId, body, FALSE, NoField))
                 /\ UNCHANGED links
    /\ UNCHANGED <<config, hooks, tables, tableName, records, nextField,
                   nextTable, tool, args, loc>>

\* createLookupField(childTableId, parentTableId, referenceFieldId,
\* parentFieldId, label): the field the client asks the service to create.
LookupFieldBody(childTableId, parentTableId, referenceFieldId, parentFieldId, label) ==
    Field(childTableId, NoField, "lookup", label, parentTableId,
          parentFieldId, referenceFieldId)

\* Step 3: one createLookupField per entry of lookupFields, in order.
AdvancedLookup(i) ==
    /\ pc[i] = "adv_lookup"
    /\ LET l == loc[i]
           k == Len(l.lookupFieldIds) + 1
           lookup == l.specs[k]
           body == LookupFieldBody(l.childTableId, l.parentTableId,
                                   l.referenceFieldId, lookup.parentFieldId,
                                   lookup.childFieldLabel)
           ids == Append(l.lookupFieldIds, nextField)
       IN \E ok \in CreateFieldOutcomes(l.childTableId) :
            IF ok
            THEN /\ fields' = fields \cup {[body EXCEPT !.id = nextField]}
                 /\ nextField' = nextField + 1
                 /\ loc' = [loc EXCEPT ![i].lookupFieldIds = ids]
                 /\ Issue(i, Call("createField", l.childTableId, body, TRUE, nextField))
                 /\ IF k < Len(l.specs)
                    THEN UNCHANGED <<pc, result>>
                    ELSE Return(i, AdvancedResult(l, ids))
            ELSE /\ Throw(i, tool[i], Rejected)
                 /\ Issue(i, Call("createField", l.childTableId, body, FALSE, NoField))
                 /\ UNCHANGED <<nextField, loc>>
    /\ UNCHANGED <<config, hooks, tables, tableName, links, records, nextTable, tool, args>>

(***************************************************************************)
(* quickbase_create_junction_table                                         *)
(***************************************************************************)
CallJunction(i) ==
    /\ pc[i] = "idle"
    /\ \E a \in JunctionArgs :
        LET name == JunctionTool
            guarded == assertToolAllowed(name, a, readOnly, allowDestructive)
            parsed == CreateJunctionTableSchema(a)
            c == JunctionTableCall(parsed.data)
        IN  /\ tool' = [tool EXCEPT ![i] = name]
            /\ args' = [args EXCEPT ![i] = a]
            /\ IF guarded # Allowed
               THEN Throw(i, name, <<guarded>>) /\ UNCHANGED loc
               ELSE IF ~parsed.ok
               THEN Throw(i, name, <<InvalidArguments, name>>) /\ UNCHANGED loc
               ELSE /\ pc' = [pc EXCEPT ![i] = Switch(name)]
                    /\ loc' = [loc EXCEPT ![i] =
                         [NoLoc EXCEPT
                            !.name = c.junctionTableName,
                            !.parentTableId = c.table1Id,
                            !.childTableId = c.table2Id,
                            !.label = c.table1FieldLabel,
                            !.label2 = c.table2FieldLabel,
                            !.specs = c.additionalFields.items]]
                    /\ UNCHANGED result
    /\ UNCHANGED <<config, remote, calls>>

\* The result of createJunctionTable.
JunctionResult(l, ids) ==
    [junctionTableId |-> l.junctionTableId,
     table1ReferenceFieldId |-> l.table1ReferenceFieldId,
     table2ReferenceFieldId |-> l.table2ReferenceFieldId,
     extraFieldIds |-> ids]

\* Step 1: createTable({name}).
JunctionTable(i) ==
    /\ pc[i] = "jun_table"
    /\ LET l == loc[i]
           body == [NoBody EXCEPT !.label = l.name]
       IN \E ok \in CreateTableOutcomes :
            IF ok
            THEN LET id == NewTableIds[nextTable]
                 IN /\ tables' = tables \cup {id}
                    /\ tableName' = [t \in tables \cup {id} |->
                                       IF t = id THEN l.name ELSE tableName[t]]
                    /\ records' = [t \in tables \cup {id} |->
                                       IF t = id THEN {} ELSE records[t]]
                    /\ nextTable' = nextTable + 1
                    /\ loc' = [loc EXCEPT ![i].junctionTableId = id]
                    /\ pc' = [pc EXCEPT ![i] = "jun_reference1"]
                    /\ Issue(i, Call("createTable", id, body, TRUE, NoField))
                    /\ UNCHANGED result
            ELSE /\ Throw(i, tool[i], Rejected)
                 /\ Issue(i, Call("createTable", NoTable, body, FALSE, NoField))
                 /\ UNCHANGED <<tables, tableName, records, nextTable, loc>>
    /\ UNCHANGED <<config, hooks, fields, links, nextField, tool, args>>

\* Steps 2 and 3: createField(junctionTableId, reference field to table n).
JunctionReference(i, n) ==
    /\ pc[i] = (IF n = 1 THEN "jun_reference1" ELSE "jun_reference2")
    /\ LET l == loc[i]
           target == IF n = 1 THEN l.parentTableId ELSE l.childTableId
           label == IF n = 1 THEN l.label ELSE l.label2
           body == Field(l.junctionTableId, NoField, "reference", label,
                         target, NoField, NoField)
       IN \E ok \in CreateFieldOutcomes(l.junctionTableId) :
            IF ok
            THEN /\ fields' = fields \cup {[body EXCEPT !.id = nextField]}
                 /\ nextField' = nextField + 1
                 /\ loc' = [loc EXCEPT ![i] =
                       IF n = 1 THEN [@ EXCEPT !.table1ReferenceFieldId = nextField]
                       ELSE [@ EXCEPT !.table2ReferenceFieldId = nextField]]
                 /\ pc' = [pc EXCEPT ![i] =
                       IF n = 1 THEN "jun_reference2" ELSE "jun_link1"]
                 /\ Issue(i, Call("createField", l.junctionTableId, body, TRUE, nextField))
                 /\ UNCHANGED result
            ELSE /\ Throw(i, tool[i], Rejected)
                 /\ Issue(i, Call("createField", l.junctionTableId, body, FALSE, NoField))
                 /\ UNCHANGED <<nextField, loc>>
    /\ UNCHANGED <<config, hooks, tables, tableName, links, records, nextTable, tool, args>>

\* Step 4: createRelationship(table n, junctionTableId, reference field n).
JunctionLink(i, n) ==
    /\ pc[i] = (IF n = 1 THEN "jun_link1" ELSE "jun_link2")
    /\ LET l == loc[i]
           target == IF n = 1 THEN l.parentTableId ELSE l.childTableId
           ref == IF n = 1 THEN l.table1ReferenceFieldId
                  ELSE l.table2ReferenceFieldId
           body == Field(l.junctionTableId, ref, "", "", target, NoField, NoField)
       IN \E ok \in CreateRelationshipOutcomes(target, l.junctionTableId) :
            IF ok
            THEN /\ links' = links \cup {<<target, l.junctionTableId, ref>>}
                 /\ UNCHANGED fields
                 /\ Issue(i, Call("createRelationship", l.junctionTableId, body, TRUE, NoField))
                 /\ IF n = 1
                    THEN pc' = [pc EXCEPT ![i] = "jun_link2"] /\ UNCHANGED result
                    ELSE IF Len(l.specs) > 0
                    THEN pc' = [pc EXCEPT ![i] = "jun_extra"] /\ UNCHANGED result
                    ELSE Return(i, JunctionResult(l, <<>>))
            ELSE /\ Throw(i, tool[i], Rejected)
                 /\ Issue(i, Call("createRelationship", l.junctionTableId, body, FALSE, NoField))
                 /\ UNCHANGED links
    /\ UNCHANGED <<config, hooks, tables, tableName, records, nextField,
                   nextTable, tool, args, loc>>

\* Step 5: one createField per entry of additionalFields, in order.
JunctionExtra(i) ==
    /\ pc[i] = "jun_extra"
    /\ LET l == loc[i]
           k == Len(l.extraFieldIds) + 1
           extra == l.specs[k]
           body == Field(l.junctionTableId, NoField, extra.fieldType,
                         extra.label, NoTable, NoField, NoField)
           ids == Append(l.extraFieldIds, nextField)
       IN \E ok \in CreateFieldOutcomes(l.junctionTableId) :
            IF ok
            THEN /\ fields' = fields \cup {[body EXCEPT !.id = nextField]}
                 /\ nextField' = nextField + 1
                 /\ loc' = [loc EXCEPT ![i].extraFieldIds = ids]
                 /\ Issue(i, Call("createField", l.junctionTableId, body, TRUE, nextField))
                 /\ IF k < Len(l.specs)
                    THEN UNCHANGED <<pc, result>>
                    ELSE Return(i, JunctionResult(l, ids))
            ELSE /\ Throw(i, tool[i], Rejected)
                 /\ Issue(i, Call("createField", l.junctionTableId, body, FALSE, NoField))
                 /\ UNCHANGED <<nextField, loc>>
    /\ UNCHANGED <<config, hooks, tables, tableName, links, records, nextTable, tool, args>>

(***************************************************************************)
(* quickbase_validate_relationship                                         *)
(***************************************************************************)
ParentNotFound == [kind |-> "parent table not found", count |-> 0]
ChildNotFound == [kind |-> "child table not found", count |-> 0]
FieldNotFound == [kind |-> "foreign key field not found", count |-> 0]
FieldNotReference == [kind |-> "field is not a reference field", count |-> 0]
OrphansFound(n) == [kind |-> "orphaned records found", count |-> n]

CallValidate(i) ==
    /\ pc[i] = "idle"
    /\ \E a \in ValidateArgs :
        LET name == ValidateTool
            guarded == assertToolAllowed(name, a, readOnly, allowDestructive)
            parsed == ValidateRelationshipSchema(a)
            c == ValidateRelationshipCall(parsed.data)
        IN  /\ tool' = [tool EXCEPT ![i] = name]
            /\ args' = [args EXCEPT ![i] = a]
            /\ IF guarded # Allowed
               THEN Throw(i, name, <<guarded>>) /\ UNCHANGED loc
               ELSE IF ~parsed.ok
               THEN Throw(i, name, <<InvalidArguments, name>>) /\ UNCHANGED loc
               ELSE /\ pc' = [pc EXCEPT ![i] = Switch(name)]
                    /\ loc' = [loc EXCEPT ![i] =
                         [NoLoc EXCEPT
                            !.parentTableId = c.parentTableId,
                            !.childTableId = c.childTableId,
                            !.foreignKeyFieldId = c.foreignKeyFieldId]]
                    /\ UNCHANGED result
    /\ UNCHANGED <<config, remote, calls>>

\* The validations a completed build invites: of the reference field it
\* returned, between the tables it connects.
ReturnedArgs(j) ==
    IF tool[j] = AdvancedTool
    THEN { [confirm |-> Undefined,
            parentTableId |-> args[j].parentTableId,
            childTableId |-> args[j].childTableId,
            foreignKeyFieldId |-> result[j].value.referenceFieldId] }
    ELSE { [confirm |-> Undefined,
            parentTableId |-> args[j].table1Id,
            childTableId |-> result[j].value.junctionTableId,
            foreignKeyFieldId |-> result[j].value.table1ReferenceFieldId],
           [confirm |-> Undefined,
            parentTableId |-> args[j].table2Id,
            childTableId |-> result[j].value.junctionTableId,
            foreignKeyFieldId |-> result[j].value.table2ReferenceFieldId] }

\* quickbase_validate_relationship called with what a build returned.
CallValidateBuilt(i) ==
    /\ pc[i] = "idle"
    /\ \E j \in Inv \ {i} :
        /\ pc[j] = "done"
        /\ tool[j] \in {AdvancedTool, JunctionTool}
        /\ \E a \in ReturnedArgs(j) :
            LET name == ValidateTool
                guarded == assertToolAllowed(name, a, readOnly, allowDestructive)
                parsed == ValidateRelationshipSchema(a)
                c == ValidateRelationshipCall(parsed.data)
            IN  /\ tool' = [tool EXCEPT ![i] = name]
                /\ args' = [args EXCEPT ![i] = a]
                /\ IF guarded # Allowed
                   THEN Throw(i, name, <<guarded>>) /\ UNCHANGED loc
                   ELSE IF ~parsed.ok
                   THEN Throw(i, name, <<InvalidArguments, name>>)
                        /\ UNCHANGED loc
                   ELSE /\ pc' = [pc EXCEPT ![i] = Switch(name)]
                        /\ loc' = [loc EXCEPT ![i] =
                             [NoLoc EXCEPT
                                !.parentTableId = c.parentTableId,
                                !.childTableId = c.childTableId,
                                !.foreignKeyFieldId = c.foreignKeyFieldId]]
                        /\ UNCHANGED result
    /\ UNCHANGED <<config, remote, calls>>

\* The result of validateRelationship: valid exactly when no issue was found.
ValidationResult(issues, orphans) ==
    [isValid |-> Len(issues) = 0, issues |-> issues,
     orphanedRecords |-> orphans]

\* Checks 1 and 2: getTableInfo of the parent, then of the child; a failed
\* fetch is recorded as an issue and the validation goes on.
ValidateTable(i, which) ==
    /\ pc[i] = (IF which = "parent" THEN "val_parent" ELSE "val_child")
    /\ LET l == loc[i]
           t == IF which = "parent" THEN l.parentTableId ELSE l.childTableId
           found == t \in tables
           issue == IF which = "parent" THEN ParentNotFound ELSE ChildNotFound
       IN /\ loc' = [loc EXCEPT ![i].issues =
                        IF found THEN @ ELSE Append(@, issue)]
          /\ pc' = [pc EXCEPT ![i] =
                        IF which = "parent" THEN "val_child" ELSE "val_field"]
          /\ Issue(i, Call("getTableInfo", t, NoBody, found, NoField))
    /\ UNCHANGED <<config, remote, tool, args, result>>

\* Check 3: getTableFields(childTableId); the field must be there and be a
\* reference field.  Any issue found by checks 1 to 3 ends the validation.
FieldIssues(found, childFields, foreignKeyFieldId) ==
    LET match == { f \in childFields : f.id = foreignKeyFieldId }
    IN  IF ~found \/ match = {} THEN <<FieldNotFound>>
        ELSE IF \E f \in match : f.fieldType # "reference"
             THEN <<FieldNotReference>>
        ELSE <<>>

ValidateField(i) ==
    /\ pc[i] = "val_field"
    /\ LET l == loc[i]
           found == l.childTableId \in tables
           childFields == { f \in fields : f.table = l.childTableId }
           issues == l.issues \o FieldIssues(found, childFields, l.foreignKeyFieldId)
       IN /\ loc' = [loc EXCEPT ![i].issues = issues]
          /\ Issue(i, Call("getTableFields", l.childTableId, NoBody, found, NoField))
          /\ IF Len(issues) = 0
             THEN pc' = [pc EXCEPT ![i] = "val_records"] /\ UNCHANGED result
             ELSE Return(i, ValidationResult(issues, {}))
    /\ UNCHANGED <<config, remote, tool, args>>

\* Check 4, first half: query the child's records.
ValidateRecords(i) ==
    /\ pc[i] = "val_records"
    /\ LET l == loc[i]
           found == l.childTableId \in tables
       IN /\ Issue(i, Call("getRecords", l.childTableId, NoBody, found, NoField))
          /\ IF found
             THEN /\ loc' = [loc EXCEPT ![i].childRecords = records[l.childTableId]]
                  /\ pc' = [pc EXCEPT ![i] = "val_orphans"]
                  /\ UNCHANGED result
             ELSE /\ Throw(i, tool[i], Rejected)
                  /\ UNCHANGED loc
    /\ UNCHANGED <<config, remote, tool, args>>

\* The child records whose reference value is no record id of the parent.
Orphans(childRecords, parentRecords) ==
    { r.id : r \in { c \in childRecords :
                       c.value \notin { p.id : p \in parentRecords } } }

\* Check 4, second half: query the parent's records and report the orphans.
ValidateOrphans(i) ==
    /\ pc[i] = "val_orphans"
    /\ LET l == loc[i]
           found == l.parentTableId \in tables
       IN /\ Issue(i, Call("getRecords", l.parentTableId, NoBody, found, NoField))
          /\ IF found
             THEN LET orphans == Orphans(l.childRecords, records[l.parentTableId])
                      issues == IF orphans = {} THEN l.issues
                                ELSE Append(l.issues, OrphansFound(Cardinality(orphans)))
                  IN /\ loc' = [loc EXCEPT ![i].issues = issues]
                     /\ Return(i, ValidationResult(issues, orphans))
             ELSE /\ Throw(i, tool[i], Rejected)
                  /\ UNCHANGED loc
    /\ UNCHANGED <<config, remote, tool, args>>

(***************************************************************************)
(* quickbase_create_relationship                                           *)
(***************************************************************************)
CallRelationship(i) ==
    /\ pc[i] = "idle"
    /\ \E a \in RelationshipArgs :
        LET name == RelationshipTool
            guarded == assertToolAllowed(name, a, readOnly, allowDestructive)
            parsed == CreateRelationshipSchema(a)
            c == CreateRelationshipCall(parsed.data)
        IN  /\ tool' = [tool EXCEPT ![i] = name]
            /\ args' = [args EXCEPT ![i] = a]
            /\ IF guarded # Allowed
               THEN Throw(i, name, <<guarded>>) /\ UNCHANGED loc
               ELSE IF ~parsed.ok
               THEN Throw(i, name, <<InvalidArguments, name>>) /\ UNCHANGED loc
               ELSE /\ pc' = [pc EXCEPT ![i] = Switch(name)]
                    /\ loc' = [loc EXCEPT ![i] =
                         [NoLoc EXCEPT
                            !.parentTableId = c.parentTableId,
                            !.childTableId = c.childTableId,
                            !.foreignKeyFieldId = c.foreignKeyFieldId]]
                    /\ UNCHANGED result
    /\ UNCHANGED <<config, remote, calls>>

\* createRelationship: POST /relationships.
CreateRelationship(i) ==
    /\ pc[i] = "rel_link"
    /\ LET l == loc[i]
           body == Field(l.childTableId, l.foreignKeyFieldId, "", "",
                         l.parentTableId, NoField, NoField)
       IN \E ok \in CreateRelationshipOutcomes(l.parentTableId, l.childTableId) :
            IF ok
            THEN /\ links' = links \cup
                       {<<l.parentTableId, l.childTableId, l.foreignKeyFieldId>>}
                 /\ UNCHANGED fields
                 /\ Issue(i, Call("createRelationship", l.childTableId, body, TRUE, NoField))
                 /\ Return(i, [parentTableId |-> l.parentTableId,
                               childTableId |-> l.childTableId])
            ELSE /\ Throw(i, tool[i], Rejected)
                 /\ Issue(i, Call("createRelationship", l.childTableId, body, FALSE, NoField))
                 /\ UNCHANGED links
    /\ UNCHANGED <<config, hooks, tables, tableName, records, nextField,
                   nextTable, tool, args, loc>>

(***************************************************************************)
(* quickbase_get_relationship_details                                      *)
(***************************************************************************)
CallDetails(i) ==
    /\ pc[i] = "idle"
    /\ \E a \in DetailsArgs :
        LET name == DetailsTool
            guarded == assertToolAllowed(name, a, readOnly, allowDestructive)
            parsed == GetRelationshipDetailsSchema(a)
            c == GetRelationshipDetailsCall(parsed.data)
        IN  /\ tool' = [tool EXCEPT ![i] = name]
            /\ args' = [args EXCEPT ![i] = a]
            /\ IF guarded # Allowed
               THEN Throw(i, name, <<guarded>>) /\ UNCHANGED loc
               ELSE IF ~parsed.ok
               THEN Throw(i, name, <<InvalidArguments, name>>) /\ UNCHANGED loc
               ELSE /\ pc' = [pc EXCEPT ![i] = Switch(name)]
                    /\ loc' = [loc EXCEPT ![i] =
                         [NoLoc EXCEPT
                            !.parentTableId = c.tableId,
                            !.includeFields = c.includeFields]]
                    /\ UNCHANGED result
    /\ UNCHANGED <<config, remote, calls>>

\* The reference fields that connect to or from table t, one relationship
\* each.
ConnectedRelationships(t) ==
    { [parentTableId |-> f.lookupTableId, childTableId |-> f.table,
       referenceFieldId |-> f.id] :
        f \in { g \in fields : /\ g.fieldType = "reference"
                               /\ (g.table = t \/ g.lookupTableId = t) } }

\* FieldSummary: identifier and label.
FieldSummary(f) == [id |-> f.id, label |-> f.label]

\* The lookup fields of the child table whose configuration names the
\* relationship's reference field.
DependentLookups(e) ==
    { FieldSummary(f) :
        f \in { g \in fields : /\ g.fieldType = "lookup"
                               /\ g.table = e.childTableId
                               /\ g.referenceFieldId = e.referenceFieldId } }

NoSummaries == [present |-> FALSE, items |-> {}]
Summaries(s) == [present |-> TRUE, items |-> s]

\* One entry of relationships[]; lookupFields is optional.
RelationshipEntry(e, lookupFields) ==
    [parentTableId |-> e.parentTableId, childTableId |-> e.childTableId,
     referenceFieldId |-> e.referenceFieldId, lookupFields |-> lookupFields]

\* The result of getRelationshipDetails.
DetailsResult(entries) == [relationships |-> entries]

\* getTableInfo(tableId): a failure propagates.
DetailsTable(i) ==
    /\ pc[i] = "det_table"
    /\ LET t == loc[i].parentTableId
           found == t \in tables
       IN /\ Issue(i, Call("getTableInfo", t, NoBody, found, NoField))
          /\ IF found
             THEN pc' = [pc EXCEPT ![i] = "det_relationships"] /\ UNCHANGED result
             ELSE Throw(i, tool[i], Rejected)
    /\ UNCHANGED <<config, remote, tool, args, loc>>

\* getRelationships(tableId); without field details the entries are returned
\* as they are.
DetailsRelationships(i) ==
    /\ pc[i] = "det_relationships"
    /\ LET l == loc[i]
           t == l.parentTableId
           found == t \in tables
           entries == ConnectedRelationships(t)
       IN /\ Issue(i, Call("getRelationships", t, NoBody, found, NoField))
          /\ IF ~found
             THEN Throw(i, tool[i], Rejected) /\ UNCHANGED loc
             ELSE IF l.includeFields /\ entries # {}
             THEN /\ loc' = [loc EXCEPT ![i].pending = entries]
                  /\ pc' = [pc EXCEPT ![i] = "det_fields"]
                  /\ UNCHANGED result
             ELSE /\ Return(i, DetailsResult(
                        { RelationshipEntry(e, NoSummaries) : e \in entries }))
                  /\ UNCHANGED loc
    /\ UNCHANGED <<config, remote, tool, args>>

\* With field details: getTableFields of the next relationship's child table,
\* cross-referenced with the relationship's reference field.
DetailsFields(i) ==
    /\ pc[i] = "det_fields"
    /\ LET l == loc[i]
           e == CHOOSE x \in l.pending : TRUE
           found == e.childTableId \in tables
           entry == RelationshipEntry(e, Summaries(DependentLookups(e)))
           entries == l.relationships \cup {entry}
       IN /\ Issue(i, Call("getTableFields", e.childTableId, NoBody, found, NoField))
          /\ IF ~found
             THEN Throw(i, tool[i], Rejected) /\ UNCHANGED loc
             ELSE /\ loc' = [loc EXCEPT ![i].pending = @ \ {e},
                                         ![i].relationships = entries]
                  /\ IF l.pending = {e}
                     THEN Return(i, DetailsResult(entries))
                     ELSE UNCHANGED <<pc, result>>
    /\ UNCHANGED <<config, remote, tool, args>>

(***************************************************************************)
(* quickbase_create_lookup_field                                           *)
(***************************************************************************)
CallLookup(i) ==
    /\ pc[i] = "idle"
    /\ \E a \in LookupArgs :
        LET name == LookupTool
            guarded == assertToolAllowed(name, a, readOnly, allowDestructive)
            parsed == CreateLookupFieldSchema(a)
            c == CreateLookupFieldCall(parsed.data)
        IN  /\ tool' = [tool EXCEPT ![i] = name]
            /\ args' = [args EXCEPT ![i] = a]
            /\ IF guarded # Allowed
               THEN Throw(i, name, <<guarded>>) /\ UNCHANGED loc
               ELSE IF ~parsed.ok
               THEN Throw(i, name, <<InvalidArguments, name>>) /\ UNCHANGED loc
               ELSE /\ pc' = [pc EXCEPT ![i] = Switch(name)]
                    /\ loc' = [loc EXCEPT ![i] =
                         [NoLoc EXCEPT
                            !.parentTableId = c.parentTableId,
                            !.childTableId = c.childTableId,
                            !.referenceFieldId = c.referenceFieldId,
                            !.parentFieldId = c.parentFieldId,
                            !.label = c.label]]
                    /\ UNCHANGED result
    /\ UNCHANGED <<config, remote, calls>>

\* The text the handler returns: `Lookup field created with ID: ${id}`.
LookupCreated(id) == [text |-> "Lookup field created with ID:", id |-> id]

\* createLookupField: one createField call; its id is the result.
CreateLookupField(i) ==
    /\ pc[i] = "lkp_create"
    /\ LET l == loc[i]
           body == LookupFieldBody(l.childTableId, l.parentTableId,
                                   l.referenceFieldId, l.parentFieldId,
                                   l.label)
       IN \E ok \in CreateFieldOutcomes(l.childTableId) :
            IF ok
            THEN /\ fields' = fields \cup {[body EXCEPT !.id = nextField]}
                 /\ nextField' = nextField + 1
                 /\ Issue(i, Call("createField", l.childTableId, body, TRUE, nextField))
                 /\ Return(i, LookupCreated(nextField))
            ELSE /\ Throw(i, tool[i], Rejected)
                 /\ Issue(i, Call("createField", l.childTableId, body, FALSE, NoField))
                 /\ UNCHANGED nextField
    /\ UNCHANGED <<config, hooks, tables, tableName, links, records, nextTable,
                   tool, args, loc>>

(***************************************************************************)
(* The tools that make one client call, and the default case.              *)
(***************************************************************************)
CallSingle(i) ==
    /\ pc[i] = "idle"
    /\ \E name \in SingleCallTools, a \in SingleCallArgs :
        LET guarded == assertToolAllowed(name, a, readOnly, allowDestructive)
            parsed == SingleCallSchema(name, a)
        IN  /\ tool' = [tool EXCEPT ![i] = name]
            /\ args' = [args EXCEPT ![i] = a]
            /\ IF guarded # Allowed
               THEN Throw(i, name, <<guarded>>) /\ UNCHANGED loc
               ELSE IF ~parsed.ok
               THEN Throw(i, name, <<InvalidArguments, name>>) /\ UNCHANGED loc
               ELSE /\ pc' = [pc EXCEPT ![i] = Switch(name)]
                    /\ loc' = [loc EXCEPT ![i] =
                         [NoLoc EXCEPT !.parentTableId = parsed.data.tableId,
                                       !.request = parsed.data]]
                    /\ UNCHANGED result
    /\ UNCHANGED <<config, remote, calls>>

\* A record tool called with field values at the limits.
CallRecord(i) ==
    /\ pc[i] = "idle"
    /\ \E name \in RecordTools :
       \E a \in RecordArgs(name) :
        LET guarded == assertToolAllowed(name, a, readOnly, allowDestructive)
            parsed == SingleCallSchema(name, a)
        IN  /\ tool' = [tool EXCEPT ![i] = name]
            /\ args' = [args EXCEPT ![i] = a]
            /\ IF guarded # Allowed
               THEN Throw(i, name, <<guarded>>) /\ UNCHANGED loc
               ELSE IF ~parsed.ok
               THEN Throw(i, name, <<InvalidArguments, name>>) /\ UNCHANGED loc
               ELSE /\ pc' = [pc EXCEPT ![i] = Switch(name)]
                    /\ loc' = [loc EXCEPT ![i] =
                         [NoLoc EXCEPT !.parentTableId = parsed.data.tableId,
                                       !.request = parsed.data]]
                    /\ UNCHANGED result
    /\ UNCHANGED <<config, remote, calls>>

\* quickbase_delete_table called on a table that relationships refer to.
DeleteTableArgs ==
    { SingleArgs(c, t, SmallPayload, <<>>, 0) :
        c \in {JsonTrue, Undefined}, t \in {"tblA", "tblC"} }

CallDeleteTable(i) ==
    /\ pc[i] = "idle"
    /\ \E a \in DeleteTableArgs :
        LET name == "quickbase_delete_table"
            guarded == assertToolAllowed(name, a, readOnly, allowDestructive)
            parsed == SingleCallSchema(name, a)
        IN  /\ tool' = [tool EXCEPT ![i] = name]
            /\ args' = [args EXCEPT ![i] = a]
            /\ IF guarded # Allowed
               THEN Throw(i, name, <<guarded>>) /\ UNCHANGED loc
               ELSE IF ~parsed.ok
               THEN Throw(i, name, <<InvalidArguments, name>>) /\ UNCHANGED loc
               ELSE /\ pc' = [pc EXCEPT ![i] = Switch(name)]
                    /\ loc' = [loc EXCEPT ![i] =
                         [NoLoc EXCEPT !.parentTableId = parsed.data.tableId,
                                       !.request = parsed.data]]
                    /\ UNCHANGED result
    /\ UNCHANGED <<config, remote, calls>>

\* default: throw new McpError(MethodNotFound, `Unknown tool: ${name}`).
CallUnknown(i) ==
    /\ pc[i] = "idle"
    /\ LET name == UnknownTool
           guarded == assertToolAllowed(name, NoArgs, readOnly, allowDestructive)
       IN  /\ tool' = [tool EXCEPT ![i] = name]
           /\ args' = [args EXCEPT ![i] = NoArgs]
           /\ Switch(name) = "default"
           /\ IF guarded # Allowed
              THEN Throw(i, name, <<guarded>>)
              ELSE Throw(i, name, <<UnknownToolMessage, name>>)
    /\ UNCHANGED <<config, tables, tableName, links, records, nextField,
                   nextTable, hooks, loc, calls>>

\* The value a payload gives the reference field: its first entry when that
\* is a number.
ReferenceValue(v) ==
    IF Len(v.entries) > 0 /\ v.entries[1].value.kind = "number"
    THEN v.entries[1].value.len ELSE 0

\* The record id the service assigns next in a table.
NewRecordId(t) ==
    IF t \in tables /\ records[t] # {}
    THEN 1 + CHOOSE m \in { r.id : r \in records[t] } :
                 \A r \in records[t] : r.id <= m
    ELSE 1

\* What the service does with one request of a single-call tool: whether it
\* succeeds, and the tables, fields, records and hooks it leaves.
SingleCallEffect(op, a) ==
    LET t == a.tableId
        same == [ok |-> TRUE, tables |-> tables, fields |-> fields,
                 records |-> records, hooks |-> hooks]
        fail == [same EXCEPT !.ok = FALSE]
        rec == IF t \in tables
               THEN { r \in records[t] : r.id = a.recordId } ELSE {}
        fld == { f \in fields : f.table = t /\ f.id = a.fieldId }
        hook(kind, id) ==
            { h \in hooks : h.kind = kind /\ h.table = t /\ h.id = id }
        create(kind, id) ==
            IF t \in tables /\ hook(kind, id) = {}
            THEN [same EXCEPT !.hooks = hooks \cup {Hook(kind, t, id)}]
            ELSE fail
        delete(kind, id) ==
            IF hook(kind, id) # {}
            THEN [same EXCEPT !.hooks = hooks \ hook(kind, id)] ELSE fail
        new(k) == NewRecordId(t) + k - 1
        added == { Record(new(k), ReferenceValue(a.records[k])) :
                     k \in 1..Len(a.records) }
                 \cup { Record(new(Len(a.records) + k), 0) : k \in 1..a.more }
    IN  CASE op = "getRecord" -> IF rec # {} THEN same ELSE fail
          [] op = "createRecord" ->
                IF t \in tables
                THEN [same EXCEPT !.records =
                        [records EXCEPT ![t] =
                            @ \cup {Record(new(1), ReferenceValue(a.fields))}]]
                ELSE fail
          [] op = "updateRecord" ->
                IF rec # {}
                THEN [same EXCEPT !.records =
                        [records EXCEPT ![t] =
                            (@ \ rec) \cup {Record(a.recordId,
                                                    ReferenceValue(a.fields))}]]
                ELSE fail
          [] op = "createRecords" ->
                IF t \in tables
                THEN [same EXCEPT !.records =
                        [records EXCEPT ![t] = @ \cup added]]
                ELSE fail
          [] op = "deleteRecord" ->
                IF rec # {}
                THEN [same EXCEPT !.records = [records EXCEPT ![t] = @ \ rec]]
                ELSE fail
          [] op = "deleteTable" ->
                IF t \in tables
                THEN [same EXCEPT
                        !.tables = tables \ {t},
                        !.fields = { f \in fields : f.table # t },
                        !.records = [u \in tables \ {t} |-> records[u]],
                        !.hooks = { h \in hooks : h.table # t }]
                ELSE fail
          [] op = "deleteField" ->
                IF fld # {} THEN [same EXCEPT !.fields = fields \ fld]
                ELSE fail
          [] op = "createWebhook" -> create("webhook", "webhook457")
          [] op = "listWebhooks" -> IF t \in tables THEN same ELSE fail
          [] op = "deleteWebhook" -> delete("webhook", a.webhookId)
          [] op = "testWebhook" -> same
          [] op = "createNotification" -> create("notification", "notif790")
          [] op = "listNotifications" -> IF t \in tables THEN same ELSE fail
          [] op = "deleteNotification" -> delete("notification", a.notificationId)

\* The one client call of the tool, and the handler's answer.
SingleCall(i) ==
    /\ pc[i] = "client_call"
    /\ LET a == loc[i].request
           op == ClientMethod(tool[i])
           e == SingleCallEffect(op, a)
       IN /\ Issue(i, Call(op, a.tableId, NoBody, e.ok, NoField))
          /\ IF e.ok
             THEN /\ tables' = e.tables
                  /\ tableName' = [u \in e.tables |-> tableName[u]]
                  /\ fields' = e.fields
                  /\ records' = e.records
                  /\ hooks' = e.hooks
                  /\ Return(i, [text |-> op, id |-> NoField])
             ELSE /\ Throw(i, tool[i], Rejected)
                  /\ UNCHANGED <<tables, tableName, records, hooks>>
    /\ UNCHANGED <<config, links, nextField, nextTable, tool, args, loc>>

(***************************************************************************)
(* The server.                                                             *)
(***************************************************************************)
Next ==
    \E i \in Inv :
        \/ CallAdvanced(i)
        \/ AdvancedReference(i)
        \/ AdvancedLink(i)
        \/ AdvancedLookup(i)
        \/ CallJunction(i)
        \/ JunctionTable(i)
        \/ JunctionReference(i, 1)
        \/ JunctionReference(i, 2)
        \/ JunctionLink(i, 1)
        \/ JunctionLink(i, 2)
        \/ JunctionExtra(i)
        \/ CallRelationship(i)
        \/ CreateRelationship(i)
        \/ CallValidate(i)
        \/ ValidateTable(i, "parent")
        \/ ValidateTable(i, "child")
        \/ ValidateField(i)
        \/ ValidateRecords(i)
        \/ ValidateOrphans(i)
        \/ CallDetails(i)
        \/ DetailsTable(i)
        \/ DetailsRelationships(i)
        \/ DetailsFields(i)
        \/ CallLookup(i)
        \/ CreateLookupField(i)
        \/ CallSingle(i)
        \/ CallUnknown(i)
        \/ SingleCall(i)

Spec == Init /\ [][Next]_vars

\* The server answering record tools whose field values are at the limits.
RecordNext ==
    \E i \in {"r1"} :
        \/ CallRecord(i)
        \/ SingleCall(i)

RecordSpec == Init /\ [][RecordNext]_vars

\* Three invocations: two that read the schema and one that deletes a table
\* the others name.
Readers == {"r1", "r3"}
Deleter == "r2"
Slots == Readers \cup {Deleter}

SessionInit ==
    /\ env \in [EnvNames -> StartValues]
    /\ allowDestructive = envFlag(DestructiveFlag, FALSE)
    /\ readOnly = envFlag(ReadOnlyFlag, FALSE)
    /\ tables = InitialTables
    /\ tableName = [t \in InitialTables |-> t]
    /\ fields = InitialFields
    /\ links = {}
    /\ records = InitialRecords
    /\ nextField = FirstNewFieldId
    /\ nextTable = 1
    /\ hooks = InitialHooks
    /\ pc = [i \in Slots |-> "idle"]
    /\ tool = [i \in Slots |-> ""]
    /\ args = [i \in Slots |-> NoArgs]
    /\ loc = [i \in Slots |-> NoLoc]
    /\ result = [i \in Slots |-> Pending]
    /\ calls = [i \in Slots |-> <<>>]

SessionNext ==
    \/ \E i \in Readers :
        \/ CallValidate(i)
        \/ ValidateTable(i, "parent")
        \/ ValidateTable(i, "child")
        \/ ValidateField(i)
        \/ ValidateRecords(i)
        \/ ValidateOrphans(i)
        \/ CallDetails(i)
        \/ DetailsTable(i)
        \/ DetailsRelationships(i)
        \/ DetailsFields(i)
    \/ CallDeleteTable(Deleter)
    \/ SingleCall(Deleter)

SessionSpec == SessionInit /\ [][SessionNext]_vars

\* One invocation builds a relationship or a junction table; the other then
\* validates what the build returned.
Builder == "r1"
Validator == "r2"

RoundTripNext ==
    \/ CallAdvanced(Builder)
    \/ AdvancedReference(Builder)
    \/ AdvancedLink(Builder)
    \/ AdvancedLookup(Builder)
    \/ CallJunction(Builder)
    \/ JunctionTable(Builder)
    \/ JunctionReference(Builder, 1)
    \/ JunctionReference(Builder, 2)
    \/ JunctionLink(Builder, 1)
    \/ JunctionLink(Builder, 2)
    \/ JunctionExtra(Builder)
    \/ CallValidateBuilt(Validator)
    \/ ValidateTable(Validator, "parent")
    \/ ValidateTable(Validator, "child")
    \/ ValidateField(Validator)
    \/ ValidateRecords(Validator)
    \/ ValidateOrphans(Validator)

RoundTripSpec == Init /\ [][RoundTripNext]_vars

\* The four orchestrator operations, every remote call of which returns: an
\* invocation suspended at an await is resumed.
Resume(i) ==
    \/ AdvancedReference(i)
    \/ AdvancedLink(i)
    \/ AdvancedLookup(i)
    \/ JunctionTable(i)
    \/ JunctionReference(i, 1)
    \/ JunctionReference(i, 2)
    \/ JunctionLink(i, 1)
    \/ JunctionLink(i, 2)
    \/ JunctionExtra(i)
    \/ ValidateTable(i, "parent")
    \/ ValidateTable(i, "child")
    \/ ValidateField(i)
    \/ ValidateRecords(i)
    \/ ValidateOrphans(i)
    \/ DetailsTable(i)
    \/ DetailsRelationships(i)
    \/ DetailsFields(i)

OrchestratorNext ==
    \E i \in Inv :
        \/ CallAdvanced(i)
        \/ CallJunction(i)
        \/ CallValidate(i)
        \/ CallDetails(i)
        \/ Resume(i)

LiveSpec ==
    /\ Init
    /\ [][OrchestratorNext]_vars
    /\ \A i \in Inv : WF_vars(Resume(i))

\* The server started under every kind of flag text, answering one call of
\* a single-call tool.
EnvInit ==
    /\ env \in [EnvNames -> RawValues]
    /\ allowDestructive = envFlag(DestructiveFlag, FALSE)
    /\ readOnly = envFlag(ReadOnlyFlag, FALSE)
    /\ tables = InitialTables
    /\ tableName = [t \in InitialTables |-> t]
    /\ fields = InitialFields
    /\ links = {}
    /\ records = InitialRecords
    /\ nextField = FirstNewFieldId
    /\ nextTable = 1
    /\ hooks = InitialHooks
    /\ pc = [i \in Inv |-> "idle"]
    /\ tool = [i \in Inv |-> ""]
    /\ args = [i \in Inv |-> NoArgs]
    /\ loc = [i \in Inv |-> NoLoc]
    /\ result = [i \in Inv |-> Pending]
    /\ calls = [i \in Inv |-> <<>>]

EnvNext ==
    \E i \in {"r1"} :
        \/ CallSingle(i)
        \/ SingleCall(i)

EnvSpec == EnvInit /\ [][EnvNext]_vars
(***************************************************************************)
(* Properties of the relationship builder.                                 *)
(***************************************************************************)
Done(i, name) == pc[i] = "done" /\ tool[i] = name
Failed(i, name) == pc[i] = "failed" /\ tool[i] = name

IsFieldCreation(c) == c.op = "createField"
FieldCreations(i) == SelectSeq(calls[i], IsFieldCreation)

\* The request of a call, without the identifiers the service assigned.
Shape(c) ==
    [op |-> c.op, fieldType |-> c.body.fieldType, label |-> c.body.label,
     lookupTableId |-> c.body.lookupTableId,
     lookupFieldId |-> c.body.lookupFieldId]
Shapes(cs) == [k \in 1..Len(cs) |-> Shape(cs[k])]

\* C1: a successful createAdvancedRelationship returns one lookup field id
\* per entry of lookupFields (none when the list is empty or omitted), and
\* the k-th id is the id the service assigned to the lookup field created
\* for the k-th entry.
C1_LookupIdsFollowSpecs ==
    \A i \in Inv : Done(i, AdvancedTool) =>
        LET specs == args[i].lookupFields.items
            ids == result[i].value.lookupFieldIds
            created == FieldCreations(i)
        IN  /\ Len(ids) = Len(specs)
            /\ Len(created) = Len(specs) + 1
            /\ \A k \in 1..Len(specs) :
                /\ created[k + 1].ok
                /\ created[k + 1].id = ids[k]
                /\ created[k + 1].body.label = specs[k].childFieldLabel
                /\ created[k + 1].body.lookupFieldId = specs[k].parentFieldId
                /\ \E f \in fields :
                    /\ f.id = ids[k] /\ f.fieldType = "lookup"
                    /\ f.label = specs[k].childFieldLabel
                    /\ f.lookupFieldId = specs[k].parentFieldId

C1_Witness ==
    \E i \in Inv :
        /\ Done(i, AdvancedTool)
        /\ Len(args[i].lookupFields.items) >= 2
        /\ Len(result[i].value.lookupFieldIds) >= 2

\* C2: a successful createAdvancedRelationship has issued 1 + N field
\* creations for N lookup entries, and two successful builds whose requests
\* differ at most in relationshipType have issued the same sequence of
\* requests.
C2_CallsIndependentOfKind ==
    /\ \A i \in Inv : Done(i, AdvancedTool) =>
          Len(FieldCreations(i)) = 1 + Len(args[i].lookupFields.items)
    /\ \A i, j \in Inv :
          ( /\ Done(i, AdvancedTool) /\ Done(j, AdvancedTool)
            /\ args[i].lookupFields.items = args[j].lookupFields.items
            /\ args[i].parentTableId = args[j].parentTableId
            /\ args[i].childTableId = args[j].childTableId )
          => Shapes(calls[i]) = Shapes(calls[j])

C2_Witness ==
    \E i, j \in Inv :
        /\ Done(i, AdvancedTool) /\ Done(j, AdvancedTool)
        /\ args[i].relationshipType = "many-to-many"
        /\ args[j].relationshipType = OmittedEnum
        /\ args[i].lookupFields.items = args[j].lookupFields.items
        /\ Len(args[i].lookupFields.items) = 1
        /\ Len(FieldCreations(i)) = 2

\* C3: at every moment of a createAdvancedRelationship the first field
\* creation is the reference field on the child table, every later one is a
\* lookup field requested after all earlier creations succeeded, in the
\* order of lookupFields, on the child table, naming the parent table, the
\* entry's parentFieldId and the id returned for the reference field.
C3_ReferenceThenLookupsInOrder ==
    \A i \in Inv : tool[i] = AdvancedTool =>
        LET specs == args[i].lookupFields.items
            created == FieldCreations(i)
        IN  /\ Len(created) <= 1 + Len(specs)
            /\ Len(created) >= 1 =>
                /\ created[1] = calls[i][1]
                /\ created[1].body.fieldType = "reference"
                /\ created[1].table = args[i].childTableId
                /\ created[1].body.lookupTableId = args[i].parentTableId
            /\ \A k \in 2..Len(created) :
                /\ \A m \in 1..(k - 1) : created[m].ok
                /\ created[k].body.fieldType = "lookup"
                /\ created[k].table = args[i].childTableId
                /\ created[k].body.lookupTableId = args[i].parentTableId
                /\ created[k].body.lookupFieldId = specs[k - 1].parentFieldId
                /\ created[k].body.referenceFieldId = created[1].id

C3_Witness ==
    \E i \in Inv :
        /\ tool[i] = AdvancedTool
        /\ Len(FieldCreations(i)) = 3
        /\ FieldCreations(i)[3].body.lookupFieldId = 5
        /\ FieldCreations(i)[3].body.referenceFieldId = FieldCreations(i)[1].id

\* C4: when a build fails after earlier steps succeeded, it has issued only
\* creation calls, and every table and every field those steps created is
\* still in the remote service.
IsBuild(i) == tool[i] \in {AdvancedTool, JunctionTool}

C4_NoCompensationOnFailure ==
    \A i \in Inv : (IsBuild(i) /\ pc[i] = "failed") =>
        \A k \in 1..Len(calls[i]) :
            LET c == calls[i][k]
            IN  /\ c.op \in {"createTable", "createField", "createRelationship"}
                /\ (c.op = "createTable" /\ c.ok) => c.table \in tables
                /\ (c.op = "createField" /\ c.ok) =>
                      \E f \in fields : f.id = c.id /\ f.table = c.table
                /\ ~c.ok => k = Len(calls[i])

C4_Witness ==
    \E i \in Inv :
        /\ IsBuild(i) /\ pc[i] = "failed"
        /\ Len(calls[i]) >= 3
        /\ calls[i][1].ok /\ calls[i][2].ok
        /\ \E k \in 1..Len(calls[i]) : calls[i][k].op = "createField" /\ calls[i][k].ok
(***************************************************************************)
(* Properties of the junction table builder.                               *)
(***************************************************************************)
CallsOf(i, op) == { k \in 1..Len(calls[i]) : calls[i][k].op = op }

\* The parts of C5 that do not count the remote calls: the first reference
\* field points at table1Id and the second at table2Id; without extra fields
\* extraFieldIds is empty, there are two reference field ids and two field
\* creations; the new table is neither table1Id nor table2Id.
JunctionShape(i) ==
    LET extra == args[i].additionalFields.items
        v == result[i].value
        created == FieldCreations(i)
    IN  /\ Len(created) = 2 + Len(extra)
        /\ created[1].body.fieldType = "reference"
        /\ created[1].body.lookupTableId = args[i].table1Id
        /\ created[2].body.fieldType = "reference"
        /\ created[2].body.lookupTableId = args[i].table2Id
        /\ \E f1, f2 \in fields :
            /\ f1.id = v.table1ReferenceFieldId /\ f1.table = v.junctionTableId
            /\ f1.fieldType = "reference" /\ f1.lookupTableId = args[i].table1Id
            /\ f2.id = v.table2ReferenceFieldId /\ f2.table = v.junctionTableId
            /\ f2.fieldType = "reference" /\ f2.lookupTableId = args[i].table2Id
        /\ v.table1ReferenceFieldId # v.table2ReferenceFieldId
        /\ Len(v.extraFieldIds) = Len(extra)
        /\ Len(extra) = 0 => (v.extraFieldIds = <<>> /\ Len(created) = 2)
        /\ v.junctionTableId \in tables
        /\ v.junctionTableId \notin {args[i].table1Id, args[i].table2Id}

Issues(v) == { v.issues[k] : k \in 1..Len(v.issues) }

\* What the remote service holds for a validation request.
IsReference(t, id) ==
    \E f \in fields : f.table = t /\ f.id = id /\ f.fieldType = "reference"
StructureOk(a) ==
    /\ a.parentTableId \in tables
    /\ a.childTableId \in tables
    /\ IsReference(a.childTableId, a.foreignKeyFieldId)
Orphaned(a) ==
    { r \in records[a.childTableId] :
        \A p \in records[a.parentTableId] : p.id # r.value }

\* C7: validateRelationship answers isValid = true with no issue exactly
\* when both tables exist, the field is a reference field of the child table
\* and no child record is orphaned; isValid is true exactly when issues is
\* empty.
C7_ValidIffAllChecksPass ==
    \A i \in Inv : Done(i, ValidateTool) =>
        LET v == result[i].value
        IN  /\ v.isValid <=> (Len(v.issues) = 0)
            /\ v.isValid <=> (StructureOk(args[i]) /\ Orphaned(args[i]) = {})

C7_Witness ==
    /\ \E i \in Inv : Done(i, ValidateTool) /\ result[i].value.isValid
    /\ \E i \in Inv : /\ Done(i, ValidateTool) /\ ~result[i].value.isValid
                      /\ StructureOk(args[i])

ReadCalls == {"getTableInfo", "getTableFields", "getRecords"}

C10_ValidateReadsOnly ==
    [][ \A i \in Inv :
          (tool'[i] = ValidateTool /\ (pc'[i] # pc[i] \/ calls'[i] # calls[i])) =>
             /\ remote' = remote
             /\ \A k \in 1..Len(calls'[i]) : calls'[i][k].op \in ReadCalls ]_vars

C10_Witness ==
    \E i \in Inv :
        /\ Done(i, ValidateTool)
        /\ Len(calls[i]) = 5
        /\ result[i].value.isValid
(***************************************************************************)
(* Properties of the relationship detail inspector.                        *)
(***************************************************************************)
EntryKey(e) ==
    [parentTableId |-> e.parentTableId, childTableId |-> e.childTableId,
     referenceFieldId |-> e.referenceFieldId]

\* The entries an inspection has resolved so far, and the relationships it
\* has listed.
Detailed(i) ==
    IF pc[i] = "done" THEN result[i].value.relationships
    ELSE loc[i].relationships
Listed(i) == { EntryKey(e) : e \in Detailed(i) } \cup loc[i].pending

FieldDetailsWanted(i) == args[i].includeFields # JsonFalse

C12_LookupFieldOneCreation ==
    \A i \in Inv : tool[i] = LookupTool =>
        LET a == args[i]
        IN  /\ Len(calls[i]) <= 1
            /\ pc[i] = "done" => Len(calls[i]) = 1
            /\ \A k \in 1..Len(calls[i]) :
                 LET c == calls[i][k]
                 IN  /\ c.op = "createField"
                     /\ c.table = a.childTableId
                     /\ c.body.fieldType = "lookup"
                     /\ c.body.label = a.lookupFieldLabel
                     /\ c.body.lookupTableId = a.parentTableId
                     /\ c.body.lookupFieldId = a.parentFieldId
                     /\ c.body.referenceFieldId = a.referenceFieldId
                     /\ pc[i] = (IF c.ok THEN "done" ELSE "failed")
                     /\ c.ok => result[i].value.id = c.id

\* A lookup field was created for a reference field that does not exist.
C12_Witness ==
    \E i \in Inv :
        /\ Done(i, LookupTool)
        /\ args[i].referenceFieldId = 9
        /\ \E f \in fields : /\ f.id = result[i].value.id
                              /\ f.fieldType = "lookup"
                              /\ f.table = "tblB"
(***************************************************************************)
(* Properties of the access policy and of the handler's errors.            *)
(***************************************************************************)
BuildTools == {AdvancedTool, LookupTool, JunctionTool}

\* C13: a build operation (advanced relationship, lookup field, junction
\* table) called with a confirm that is not the boolean true is rejected and
\* issues no remote call.
C13_BuildNeedsConfirmTrue ==
    \A i \in Inv :
        (tool[i] \in BuildTools /\ args[i].confirm # JsonTrue) =>
            /\ pc[i] = "failed"
            /\ ~result[i].ok
            /\ calls[i] = <<>>

\* With the server writable, each build operation was rejected for a confirm
\* that is the string "true", a false, or missing.
C13_Witness ==
    /\ ~readOnly
    /\ \E i, j \in Inv :
        /\ Failed(i, LookupTool) /\ args[i].confirm = "'true'"
        /\ result[i].message =
             <<"Error executing", LookupTool, InvalidArguments, LookupTool>>
        /\ Failed(j, JunctionTool) /\ args[j].confirm = Undefined
\* The invocation was refused with this message before any remote call.
RefusedWith(i, denial) ==
    /\ pc[i] = "failed"
    /\ result[i].message = <<"Error executing", tool[i], denial>>
    /\ calls[i] = <<>>

\* The invocation got past the guard: it was not refused with a policy
\* message.
PassedGuard(i) ==
    /\ pc[i] # "idle"
    /\ ~ \E d \in {ReadOnlyDenied, DestructiveDenied, ConfirmationDenied} :
            RefusedWith(i, d)

\* C14: on a read-only server every call of a tool outside the read-only
\* allow-list, the build operations and quickbase_update_record among them,
\* is refused with the read-only error and issues no remote call, whatever
\* confirm and allowDestructive are; quickbase_get_record passes the guard.
C14_ReadOnlyRefusesWrites ==
    /\ (BuildTools \cup {"quickbase_update_record"}) \cap readOnlyAllowedTools = {}
    /\ readOnly =>
         \A i \in Inv : pc[i] # "idle" =>
            /\ tool[i] \notin readOnlyAllowedTools
                 => RefusedWith(i, ReadOnlyDenied)
            /\ tool[i] \in BuildTools \cup {"quickbase_update_record"}
                 => RefusedWith(i, ReadOnlyDenied)
            /\ tool[i] = "quickbase_get_record" => PassedGuard(i)

\* On a read-only server that allows destructive tools, a confirmed
\* quickbase_update_record was refused and quickbase_get_record returned.
C14_Witness ==
    /\ readOnly /\ allowDestructive
    /\ \E i, j \in Inv :
        /\ Failed(i, "quickbase_update_record")
        /\ args[i].confirm = JsonTrue
        /\ Done(j, "quickbase_get_record")

DeleteTools ==
    {"quickbase_delete_table", "quickbase_delete_field",
     "quickbase_delete_record", "quickbase_delete_webhook",
     "quickbase_delete_notification"}

\* C15: on a writable server with allowDestructive false every delete tool
\* (table, field, record, webhook, notification) is refused with the
\* destructive-tool error before any remote call; with allowDestructive true
\* the same calls pass the guard without confirm.
C15_DeleteToolsNeedDestructive ==
    ~readOnly =>
        \A i \in Inv : tool[i] \in DeleteTools =>
            IF allowDestructive
            THEN args[i].confirm = Undefined => PassedGuard(i)
            ELSE RefusedWith(i, DestructiveDenied)

\* C16: on a read-only server quickbase_list_webhooks and
\* quickbase_list_notifications pass the guard, and quickbase_test_webhook
\* and quickbase_create_notification, confirmed or not, are refused with the
\* read-only error.
C16_ReadOnlyAllowsListing ==
    readOnly =>
        \A i \in Inv :
            /\ tool[i] \in {"quickbase_list_webhooks",
                             "quickbase_list_notifications"}
                 => PassedGuard(i)
            /\ tool[i] \in {"quickbase_test_webhook",
                             "quickbase_create_notification"}
                 => RefusedWith(i, ReadOnlyDenied)

\* C17: on a writable server quickbase_update_record,
\* quickbase_create_webhook and quickbase_create_notification called without
\* confirm = true are refused by the guard with the requires-confirmation
\* error, and pass the guard with confirm = true.
C17_WritesNeedConfirmation ==
    ~readOnly =>
        \A i \in Inv :
            tool[i] \in {"quickbase_update_record", "quickbase_create_webhook",
                         "quickbase_create_notification"} =>
                IF args[i].confirm = JsonTrue
                THEN PassedGuard(i)
                ELSE RefusedWith(i, ConfirmationDenied)
\* The message of the failure the handler caught: the service's refusal when
\* a remote call was made, else the guard's denial, the default case's
\* message, or the schema's rejection.
OriginalCause(i) ==
    LET guarded == assertToolAllowed(tool[i], args[i], readOnly, allowDestructive)
    IN  IF calls[i] # <<>> THEN Rejected
        ELSE IF guarded # Allowed THEN <<guarded>>
        ELSE IF tool[i] = UnknownTool THEN <<UnknownToolMessage, tool[i]>>
        ELSE <<InvalidArguments, tool[i]>>

CreatedId(c) == IF c.op = "createTable" THEN c.table ELSE ToString(c.id)

\* C19: when a build of a relationship or of a junction table fails after a
\* step succeeded, the failure delivered to the caller names the identifier
\* of every table and field created before the failure.
C19_FailureReportsCreatedIds ==
    \A i \in Inv : (IsBuild(i) /\ pc[i] = "failed") =>
        \A k \in 1..Len(calls[i]) :
            LET c == calls[i][k]
            IN  (c.ok /\ c.op \in {"createTable", "createField"}) =>
                    \E m \in 1..Len(result[i].message) :
                        result[i].message[m] = CreatedId(c)

\* The request of a remote call.
Request(c) == [op |-> c.op, table |-> c.table, body |-> c.body]

\* C20: when a remote call of a build fails, the build fails with that
\* call's failure reason, the failed call is the last call of the build, and
\* no request of the build is issued twice.
C20_FailedCallEndsBuild ==
    \A i \in Inv : IsBuild(i) =>
        /\ \A k \in 1..Len(calls[i]) : ~calls[i][k].ok =>
              /\ k = Len(calls[i])
              /\ pc[i] = "failed"
              /\ result[i].message = <<"Error executing", tool[i]>> \o Rejected
        /\ \A j, k \in 1..Len(calls[i]) :
              j # k => Request(calls[i][j]) # Request(calls[i][k])

\* A junction table build failed at its fourth remote call or later.
C20_Witness ==
    \E i \in Inv :
        /\ Failed(i, JunctionTool)
        /\ Len(calls[i]) >= 4
        /\ ~calls[i][Len(calls[i])].ok
        /\ \A k \in 1..(Len(calls[i]) - 1) : calls[i][k].ok
(***************************************************************************)
(* Properties of concurrent invocations.                                   *)
(***************************************************************************)
\* The invocations whose junction table creation succeeded.
JunctionCreators ==
    { i \in Inv : /\ tool[i] = JunctionTool
                  /\ \E k \in 1..Len(calls[i]) :
                        calls[i][k].op = "createTable" /\ calls[i][k].ok }

\* The tables of the service that carry this name.
TablesNamed(n) == { t \in tables : tableName[t] = n }

\* C21: junction table builds with the same name are not deduplicated: each
\* build whose table creation succeeded made a table of its own carrying the
\* requested name, so two concurrent builds leave two tables of that name.
C21_NoDeduplication ==
    \A i \in JunctionCreators :
        /\ loc[i].junctionTableId \in TablesNamed(args[i].junctionTableName)
        /\ \A j \in JunctionCreators \ {i} :
              loc[j].junctionTableId # loc[i].junctionTableId
        /\ Cardinality(TablesNamed(args[i].junctionTableName))
              = Cardinality({ j \in JunctionCreators :
                    args[j].junctionTableName = args[i].junctionTableName })

\* Two builds with the same name are both under way, neither has finished,
\* and the service holds two tables of that name.
C21_Witness ==
    /\ JunctionCreators = Inv
    /\ \A i \in Inv : pc[i] \notin {"done", "failed"}
    /\ args["r1"].junctionTableName = args["r2"].junctionTableName
    /\ Cardinality(TablesNamed(args["r1"].junctionTableName)) = 2
(***************************************************************************)
(* Properties of the record tools.                                         *)
(***************************************************************************)
\* Every value of a payload with its nesting depth, the root at depth.
RECURSIVE ValuesOf(_, _)
RECURSIVE ValuesFrom(_, _, _)
ValuesFrom(v, k, depth) ==
    IF k > Len(v.entries) THEN <<>>
    ELSE ValuesOf(v.entries[k].value, depth) \o ValuesFrom(v, k + 1, depth)
ValuesOf(v, depth) ==
    <<[value |-> v, depth |-> depth]>> \o ValuesFrom(v, 1, depth + 1)

RECURSIVE KeyTotal(_, _)
KeyTotal(vs, k) ==
    IF k > Len(vs) THEN 0
    ELSE KeyTotal(vs, k + 1)
         + (IF vs[k].value.kind = "object"
            THEN Len(vs[k].value.entries) + vs[k].value.pad ELSE 0)

\* The limits as the specification states them.
WithinLimits(payload) ==
    LET vs == ValuesOf(payload, 0)
        size(v) == Len(v.entries) + v.pad
    IN  /\ \A k \in 1..Len(vs) :
             LET v == vs[k].value IN
             /\ vs[k].depth <= 4
             /\ size(v) > 0 => vs[k].depth + 1 <= 4
             /\ v.kind = "string" => v.len <= 10000
             /\ v.kind = "array" => size(v) <= 1000
             /\ v.kind = "object" =>
                  /\ size(v) <= 250
                  /\ \A e \in 1..Len(v.entries) : v.entries[e].keyLen <= 64
             /\ v.kind \in {"null", "undefined", "string", "number",
                            "boolean", "array", "object"}
        /\ KeyTotal(vs, 1) <= 2000

\* The field values an invocation of a record tool carries.
FieldValues(i) ==
    IF tool[i] = "quickbase_bulk_create_records"
    THEN { args[i].records[k] : k \in 1..Len(args[i].records) }
    ELSE {args[i].fields}

\* An invocation carries a payload the request shape validator refuses.
OverLimit(i) ==
    \/ \E v \in FieldValues(i) : v.kind # "object" \/ ~WithinLimits(v)
    \/ /\ tool[i] = "quickbase_bulk_create_records"
       /\ Len(args[i].records) + args[i].more > 250

GuardOutcome(i) ==
    assertToolAllowed(tool[i], args[i], readOnly, allowDestructive)

\* C22: for the three record tools the guard is evaluated first, then the
\* request shape validator, then the client: a call the guard denies fails
\* with the guard's refusal whatever its payload, a call the guard allows whose
\* payload exceeds a limit fails as invalid arguments, neither issues a remote
\* call, and a remote call is issued only for an allowed call within the limits.
C22_GuardThenShapeThenClient ==
    \A i \in Inv :
        (tool[i] \in RecordTools /\ pc[i] # "idle") =>
            /\ GuardOutcome(i) # Allowed =>
                 /\ result[i] = Failure(tool[i], <<GuardOutcome(i)>>)
                 /\ calls[i] = <<>>
            /\ (GuardOutcome(i) = Allowed /\ OverLimit(i)) =>
                 /\ result[i] = Failure(tool[i], <<InvalidArguments, tool[i]>>)
                 /\ calls[i] = <<>>
            /\ calls[i] # <<>> =>
                 /\ GuardOutcome(i) = Allowed /\ ~OverLimit(i)
                 /\ Len(calls[i]) = 1
                 /\ calls[i][1].op = ClientMethod(tool[i])

\* A bulk creation whose second record nests too deep passed the guard and
\* was refused without a remote call.
C22_Witness ==
    \E i \in Inv :
        /\ Failed(i, "quickbase_bulk_create_records")
        /\ GuardOutcome(i) = Allowed
        /\ Len(args[i].records) = 2
        /\ WithinLimits(args[i].records[1])
        /\ ~WithinLimits(args[i].records[2])
        /\ calls[i] = <<>>

\* C25: validateFieldPayload accepts a payload exactly when every value is at
\* depth 4 or less, every string has at most 10000 characters, every array at
\* most 1000 items, every object at most 250 keys of at most 64 characters,
\* the objects have at most 2000 keys together, and every leaf is null,
\* undefined, a string, a number or a boolean; an allowed creation or update
\* is refused as invalid exactly when its field values are not such a payload.
C25_PayloadAcceptedIffWithinLimits ==
    \A i \in Inv :
        (tool[i] \in RecordTools /\ pc[i] # "idle") =>
            /\ \A v \in FieldValues(i) :
                 validateFieldPayload(v) = <<>> <=> WithinLimits(v)
            /\ ( /\ tool[i] # "quickbase_bulk_create_records"
                 /\ GuardOutcome(i) = Allowed
                 /\ args[i].fields.kind = "object" ) =>
                 ( result[i] = Failure(tool[i], <<InvalidArguments, tool[i]>>)
                     <=> ~WithinLimits(args[i].fields) )

\* A record was created from field values that reach depth 4 and no further.
C25_Witness ==
    \E i \in Inv :
        /\ Done(i, "quickbase_create_record")
        /\ LET vs == ValuesOf(args[i].fields, 0)
           IN  /\ \E k \in 1..Len(vs) :
                    vs[k].depth = 4 /\ vs[k].value.kind = "string"
               /\ WithinLimits(args[i].fields)
(***************************************************************************)
(* Properties of invocations that follow one another.                      *)
(***************************************************************************)
\* The call an invocation has just issued, if it issued one in this step.
Issued(j, op) ==
    /\ Len(calls'[j]) = Len(calls[j]) + 1
    /\ calls'[j][Len(calls'[j])].op = op

\* What a completed validation reports is what its own fetches returned.
ReportsOwnFetches(j) ==
    LET v == result[j].value
        cs == calls[j]
    IN  /\ cs[1].op = "getTableInfo" /\ cs[1].table = args[j].parentTableId
        /\ cs[2].op = "getTableInfo" /\ cs[2].table = args[j].childTableId
        /\ ParentNotFound \in Issues(v) <=> ~cs[1].ok
        /\ ChildNotFound \in Issues(v) <=> ~cs[2].ok
        /\ ~cs[1].ok => ~v.isValid

\* C23: the orchestrator keeps no state between invocations: every table
\* fetch of an invocation answers from the tables the service holds at that
\* moment, a completed validation reports parent or child not found exactly
\* when its own fetch of that table failed, and a completed details request
\* fetched its table successfully; so a validation run after the parent table
\* was deleted reports parent not found whatever an earlier one returned.
C23_NoStateBetweenInvocations ==
    /\ [](\A j \in Readers :
            /\ Done(j, ValidateTool) => ReportsOwnFetches(j)
            /\ Done(j, DetailsTool) =>
                 /\ calls[j][1].table = args[j].tableId
                 /\ calls[j][1].ok)
    /\ [][\A j \in Readers :
            Issued(j, "getTableInfo") =>
                LET c == calls'[j][Len(calls'[j])]
                IN  c.ok <=> c.table \in tables]_vars

\* A validation returned isValid = true, the parent table was then deleted,
\* and a later validation with the same arguments reported parent not found.
C23_Witness ==
    /\ Done("r1", ValidateTool) /\ result["r1"].value.isValid
    /\ calls["r1"][Len(calls["r1"])].ok
    /\ Done(Deleter, "quickbase_delete_table")
    /\ args[Deleter].tableId = args["r1"].parentTableId
    /\ Done("r3", ValidateTool) /\ args["r3"] = args["r1"]
    /\ ~calls["r3"][1].ok
    /\ ParentNotFound \in Issues(result["r3"].value)
    /\ ~result["r3"].value.isValid
(***************************************************************************)
(* Properties of the validation's record queries.                          *)
(***************************************************************************)
IsRecordQuery(c) == c.op = "getRecords"
RecordQueries(i) == SelectSeq(calls[i], IsRecordQuery)

\* C24: validateRelationship queries records only when both tables exist and
\* the field is a reference field of the child table; otherwise it answers
\* after the three structural fetches with isValid = false and at least one
\* issue, without a record query.
C24_OrphanScanOnlyAfterChecksPass ==
    \A i \in Inv : tool[i] = ValidateTool =>
        /\ RecordQueries(i) # <<>> =>
             /\ StructureOk(args[i])
             /\ Len(calls[i]) > 3
             /\ \A k \in 1..3 : calls[i][k].ok /\ ~IsRecordQuery(calls[i][k])
        /\ (pc[i] \notin {"idle", "val_parent", "val_child", "val_field"}
              /\ calls[i] # <<>> /\ ~StructureOk(args[i])) =>
             /\ pc[i] = "done"
             /\ ~result[i].value.isValid
             /\ Len(result[i].value.issues) >= 1
             /\ result[i].value.orphanedRecords = {}
             /\ Len(calls[i]) = 3
             /\ RecordQueries(i) = <<>>

\* One validation stopped at a field that is no reference field, without a
\* record query; another passed the three checks and queried the records.
C24_Witness ==
    /\ \E i \in Inv :
        /\ Done(i, ValidateTool)
        /\ FieldNotReference \in Issues(result[i].value)
        /\ RecordQueries(i) = <<>>
    /\ \E i \in Inv :
        /\ Done(i, ValidateTool)
        /\ Len(RecordQueries(i)) = 2
(***************************************************************************)
(* Properties of the environment flags.                                    *)
(***************************************************************************)
\* The text is one of the words, in any case, within white space.
Spells(raw, words) ==
    /\ raw.set
    /\ \E w \in words :
       \E lead \in 0..Len(raw.text) :
          /\ lead + Len(w) <= Len(raw.text)
          /\ \A k \in 1..Len(raw.text) :
                IF k <= lead \/ k > lead + Len(w)
                THEN raw.text[k] \in WhiteSpace
                ELSE toLowerCase(<<raw.text[k]>>) = <<w[k - lead]>>

\* C26: envFlag returns true for 1, true, yes, y and on, false for 0, false,
\* no, n and off, each in any case and within white space, and the default
\* for an unset, empty or other text; the server's flags are envFlag of their
\* variables with default false, so under a QB_ALLOW_DESTRUCTIVE that is
\* unset or spells none of the true words a writable server refuses every
\* delete tool before any remote call.
C26_EnvFlagParsing ==
    /\ \A name \in EnvNames, d \in BOOLEAN :
         envFlag(name, d) =
            (IF Spells(env[name], TRUE_VALUES) THEN TRUE
             ELSE IF Spells(env[name], FALSE_VALUES) THEN FALSE
             ELSE d)
    /\ allowDestructive = Spells(env[DestructiveFlag], TRUE_VALUES)
    /\ readOnly = Spells(env[ReadOnlyFlag], TRUE_VALUES)
    /\ \A i \in Inv :
         ( /\ tool[i] \in destructiveTools
           /\ ~Spells(env[DestructiveFlag], TRUE_VALUES)
           /\ ~readOnly ) =>
             /\ result[i] = Failure(tool[i], <<DestructiveDenied>>)
             /\ calls[i] = <<>>

\* QB_ALLOW_DESTRUCTIVE holds a word that is not recognised, QB_READONLY a
\* false word in upper case within white space, and a delete was refused.
C26_Witness ==
    /\ env[DestructiveFlag] = Text(<<"e", "n", "a", "b", "l", "e", "d">>)
    /\ env[ReadOnlyFlag] = Text(<<" ", "N", "O", " ">>)
    /\ \E i \in Inv :
         /\ Failed(i, "quickbase_delete_record")
         /\ result[i] = Failure(tool[i], <<DestructiveDenied>>)
(***************************************************************************)
(* Properties of the diagnostics on a read-only server.                    *)
(***************************************************************************)
DiagnosticTools == {ValidateTool, DetailsTool}

\* C30: on a read-only server quickbase_validate_relationship and
\* quickbase_get_relationship_details are refused by the guard with the
\* read-only error and issue no remote call, although on a writable server
\* every call they issue is a read.
C30_ReadOnlyRefusesDiagnostics ==
    \A i \in Inv : tool[i] \in DiagnosticTools =>
        /\ readOnly =>
             /\ pc[i] = "failed"
             /\ result[i] = Failure(tool[i], <<ReadOnlyDenied>>)
             /\ calls[i] = <<>>
        /\ \A k \in 1..Len(calls[i]) :
             calls[i][k].op \in ReadCalls \cup {"getRelationships"}

\* On a read-only server a validation and a details request were both
\* refused.
C30_Witness ==
    /\ readOnly
    /\ \E i, j \in Inv :
        /\ Failed(i, ValidateTool) /\ calls[i] = <<>>
        /\ Failed(j, DetailsTool) /\ calls[j] = <<>>
(***************************************************************************)
(* Properties of the fields that concurrent builds create.                 *)
(***************************************************************************)
\* The reference fields and the lookup fields an invocation has created.
CreatedOfKind(i, kind) == { f \in CreatedFields(i) : f.fieldType = kind }

\* C27: under any interleaving of relationship builds and any refusals of
\* the service, every lookup field a build has created names the one
\* reference field that the same build created, which exists on the build's
\* child table, where the lookup field is too, and points at the build's
\* parent table.
C27_LookupsNameOwnReference ==
    \A i \in Inv : tool[i] = AdvancedTool =>
        /\ Cardinality(CreatedOfKind(i, "reference")) <= 1
        /\ \A f \in CreatedOfKind(i, "lookup") :
             /\ f.table = args[i].childTableId
             /\ f.lookupTableId = args[i].parentTableId
             /\ \E r \in CreatedOfKind(i, "reference") :
                  /\ r \in fields
                  /\ r.id = f.referenceFieldId
                  /\ r.table = args[i].childTableId
                  /\ r.lookupTableId = args[i].parentTableId
                  /\ \A j \in Inv \ {i} : r \notin CreatedFields(j)

\* Two builds on the same tables have each created a reference field and a
\* lookup field, the second build's reference field between the first
\* build's reference field and its lookup field; one build then failed.
C27_Witness ==
    \E i, j \in Inv :
        /\ i # j /\ tool[i] = AdvancedTool /\ tool[j] = AdvancedTool
        /\ \E ri \in CreatedOfKind(i, "reference"),
              rj \in CreatedOfKind(j, "reference"),
              li \in CreatedOfKind(i, "lookup") :
                ri.id < rj.id /\ rj.id < li.id
        /\ CreatedOfKind(j, "lookup") # {}
        /\ pc[j] = "failed"
(***************************************************************************)
(* Properties of a validation that follows a build.                        *)
(***************************************************************************)
StructuralIssues ==
    {ParentNotFound, ChildNotFound, FieldNotFound, FieldNotReference}

\* C28: a validation of the reference field that a successful relationship
\* build returned, between the build's tables, is not refused and finds no
\* structural issue, going on to both record queries; a validation of either
\* reference field that a successful junction table build returned, between
\* the target table and the new table, answers isValid = true with no issue
\* and no orphan, the new table holding no records.
C28_BuiltRelationshipValidates ==
    \A i \in Inv : tool[i] = ValidateTool =>
        /\ pc[i] # "failed"
        /\ \A j \in Inv :
             (pc[j] = "done" /\ tool[j] = JunctionTool) =>
                records[result[j].value.junctionTableId] = {}
        /\ pc[i] = "done" =>
             LET v == result[i].value
             IN  \A j \in Inv \ {i} :
                    args[i] \in ReturnedArgs(j) =>
                        /\ Issues(v) \cap StructuralIssues = {}
                        /\ Len(calls[i]) = 5
                        /\ \A k \in 1..5 : calls[i][k].ok
                        /\ tool[j] = JunctionTool =>
                             /\ v.isValid
                             /\ v.issues = <<>>
                             /\ v.orphanedRecords = {}

\* The second reference field of a junction table with an extra field was
\* validated against the second table.
C28_Witness ==
    /\ Done(Builder, JunctionTool)
    /\ Len(result[Builder].value.extraFieldIds) = 1
    /\ Done(Validator, ValidateTool)
    /\ args[Validator].parentTableId = args[Builder].table2Id
    /\ args[Validator].foreignKeyFieldId
         = result[Builder].value.table2ReferenceFieldId
    /\ result[Validator].value.isValid
(***************************************************************************)
(* Termination of the orchestrator's operations.                           *)
(***************************************************************************)
Suspended(i) == pc[i] \notin {"idle", "done", "failed"}
Completed(i) == pc[i] \in {"done", "failed"}

\* The most remote calls an invocation makes.
MostCalls(i) ==
    CASE tool[i] = AdvancedTool -> 2 + Len(loc[i].specs)
      [] tool[i] = JunctionTool -> 5 + Len(loc[i].specs)
      [] tool[i] = ValidateTool -> 5
      [] tool[i] = DetailsTool -> 2 + Cardinality(fields)
      [] OTHER -> 0

\* C29: every remote call returning, each invocation of buildRelationship,
\* buildJunctionTable, validateRelationship and getRelationshipDetails that
\* is suspended at a step eventually completes with a result or a failure,
\* having made a bounded number of remote calls.
C29_InvocationsComplete ==
    /\ \A i \in Inv : Suspended(i) ~> Completed(i)
    /\ [](\A i \in Inv : Len(calls[i]) <= MostCalls(i))

\* Both invocations completed, one with a result after its last lookup field
\* and one with a failure after a remote call.
C29_Witness ==
    \E i, j \in Inv :
        /\ Done(i, AdvancedTool) /\ Len(calls[i]) = 2 + MaxLookups
        /\ Failed(j, JunctionTool) /\ Len(calls[j]) > 1
====
